---- MODULE Spec2Model ----
(***************************************************************************)
(* x402-cli: the `x402 test` payment flow (internal/commands/test.go,      *)
(* runTest) together with the codec, selector, token and amount helpers it *)
(* calls, and the interrupt-handler goroutine that runs beside it.         *)
(*                                                                         *)
(* Representation of Go strings.                                           *)
(*  - Identifiers that the code only compares or looks up (header names,   *)
(*    network identifiers, asset addresses) are TLA+ strings; the string   *)
(*    functions applied to them (HasPrefix, ToLower, Sscanf) are computed  *)
(*    on the finite universe of identifiers the model draws from.          *)
(*  - Amount strings, which the code parses, pads, truncates and prints,   *)
(*    are sequences of ASCII codes, and the parsing is computed on them.   *)
(*  - A header or body text is a record [kind, doc]: kind says how the     *)
(*    text is encoded ("json": JSON text of doc, "b64json": base64 of the  *)
(*    JSON text of doc, "b64garbage": base64 of something that is no JSON, *)
(*    "garbage": neither base64 nor JSON, "plain": a caller's header       *)
(*    value, "empty": the empty string).                                   *)
(***************************************************************************)
EXTENDS Integers, Sequences, FiniteSets, TLC

VARIABLES
    \* ---- command-line flags (test.go:23-34), fixed for one invocation
    solanaKeypairPath,        \* "" or a path
    dryRun,
    jsonOutput,               \* --json: results are printed as JSON
    skipPaymentConfirmation,
    maxAmount,                \* amount string (ASCII codes), <<>> when not given
    requestMethod,
    requestData,              \* "" or the body text
    requestHeaders,           \* the -H arguments, in order
    \* ---- locals of runTest
    pc,                       \* position of the main goroutine in runTest
    signatureSent,            \* the latch of test.go:93
    headers,                  \* map[string]string built at test.go:115
    reqResult,                \* response of the initial request
    parseResult,              \* result of ParsePaymentRequired
    paymentOption,            \* the selected requirement
    isSolana,                 \* the chain tag
    chainID,
    tokenKnown,
    keyLoaded,                \* "" | "evm" | "solana"
    signParams,               \* wallet.SignParams of test.go:304
    signResult,
    headerName,
    headerValue,
    retryResult,
    result,                   \* output.TestResult being built
    \* ---- what the run did, and how it ended
    outcome,                  \* "Running" until runTest returns or the process exits
    failure,                  \* which error runTest returned
    sent,                     \* the HTTP requests issued, in order
    parseCalls,
    signerCalls,
    \* ---- the interrupt-handler goroutine (test.go:95-105)
    hpc,                      \* "waiting" | "woken" | "read" | "reported"
    hread,                    \* the value of signatureSent the handler read
    report,                   \* "" | "none" ("No payment was made") | "warn"
    sigAt,                    \* history: "" | "unsigned" | "signed", whether the signer
                              \* had returned when the signal arrived
    \* ---- one call of a function of the packages, taken by itself
    fn,                       \* the function called, "" before the call
    args,                     \* its arguments
    ret,                      \* what it returned
    \* ---- runBatchChecks: the dispatcher loop and its worker goroutines
    bpc,                      \* where the dispatcher is
    iLoop,                    \* the loop variable i (entries are numbered from 1)
    results,                  \* the results slice
    semaphore,                \* number of tokens in the semaphore channel
    wg,                       \* the WaitGroup counter
    mu,                       \* TRUE while the mutex is held
    stopped,                  \* the stopped flag
    stopChan,                 \* "open" or "closed"
    workers,                  \* per entry: the goroutine's position and its result
    checks,                   \* history: per entry, the results its checks returned
    writes,                   \* history: per entry, the number of writes to its slot
    summary                   \* runBatchHealth's count of the returned results

vars == <<solanaKeypairPath, dryRun, skipPaymentConfirmation, maxAmount,
          requestMethod, requestData, requestHeaders,
          pc, signatureSent, headers, reqResult, parseResult, paymentOption,
          isSolana, chainID, tokenKnown, keyLoaded, signParams, signResult, headerName,
          headerValue, retryResult, result,
          outcome, failure, sent, parseCalls, signerCalls,
          hpc, hread, report, sigAt, fn, args, ret, jsonOutput,
          bpc, iLoop, results, semaphore, wg, mu, stopped, stopChan, workers, checks, writes,
          summary>>

flagVars == <<solanaKeypairPath, dryRun, skipPaymentConfirmation, maxAmount,
              requestMethod, requestData, requestHeaders, jsonOutput>>

handlerVars == <<hpc, hread, report, sigAt>>

fnVars == <<fn, args, ret>>

batchVars == <<bpc, iLoop, results, semaphore, wg, mu, stopped, stopChan, workers, checks, writes,
          summary>>

Nil == [nil |-> TRUE]

\* ------------------------------------------------------------------------
\* Bounds of the model
\* ------------------------------------------------------------------------

\* longest accepts[] list a 402 response carries
MaxAccepts == 2

\* ------------------------------------------------------------------------
\* Protocol constants (x402 types)
\* ------------------------------------------------------------------------

ProtocolV1 == 1
ProtocolV2 == 2

HeaderPaymentRequired == "Payment-Required"
HeaderPaymentSignature == "Payment-Signature"
HeaderPaymentResponse == "Payment-Response"
HeaderXPayment == "X-Payment"
HeaderXPaymentResponse == "X-Payment-Response"

StatusOK == 200
StatusPaymentRequired == 402
StatusInternalServerError == 500

\* ------------------------------------------------------------------------
\* Identifiers the model draws from
\* ------------------------------------------------------------------------

caip2EVMPrefix == "eip155:"
caip2SolanaPrefix == "solana:"

SolanaMainnet == "solana:5eykt4UsFv8P8NJdTREpY1vzqKqZKvdp"
SolanaDevnet == "solana:EtWTRABZaYq6iMfeYKouRu166VU2xqa1"
SolanaTestnet == "solana:4uhcVJyU9pJkvQyS88uRDiswHXSCkY3z"

\* USDC on Base in its checksummed (mixed-case) spelling, USDC on Solana
\* devnet, and a token nobody registered
AssetBaseUSDC == "0x833589fCD6eDb6E08f4c7C32D4f71b54bdA02913"
AssetDevnetUSDC == "4zMMC9srt5Ri5X14GAgXhaHii3GnPAEERYPJgZJDncDU"
AssetUnknown == "0x00000000000000000000000000000000deadbeef"

\* strings.HasPrefix(s, p) for the two CAIP-2 prefixes, on the identifiers above
HasPrefix(s, p) ==
    CASE p = caip2EVMPrefix ->
           s \in {"eip155:", "eip155:1", "eip155:8453", "eip155:84532", "eip155:x"}
      [] p = caip2SolanaPrefix ->
           s \in {"solana:", SolanaMainnet, SolanaDevnet, SolanaTestnet}
      [] OTHER -> FALSE

\* strings.ToLower, on the identifiers above (every other identifier of the
\* model is lower case already)
ToLower(s) ==
    CASE s = AssetBaseUSDC -> "0x833589fcd6edb6e08f4c7c32d4f71b54bda02913"
      [] s = AssetDevnetUSDC -> "4zmmc9srt5ri5x14gagxhahii3gnpaeerypjgzjdncdu"
      [] s = SolanaMainnet -> "solana:5eykt4usfv8p8njdtrepy1vzqkqzkvdp"
      [] s = SolanaDevnet -> "solana:etwtrabzayq6imfeykouru166vu2xqa1"
      [] s = SolanaTestnet -> "solana:4uhcvjyu9pjkvqys88urdiswhxscky3z"
      [] OTHER -> s

\* fmt.Sscanf(network, "eip155:%d", &chainID): the leading decimal digits
\* after the prefix, an error when there are none
ScanChainID(network) ==
    CASE network = "eip155:1" -> [ok |-> TRUE, id |-> 1]
      [] network = "eip155:8453" -> [ok |-> TRUE, id |-> 8453]
      [] network = "eip155:84532" -> [ok |-> TRUE, id |-> 84532]
      [] OTHER -> [ok |-> FALSE, id |-> 0]

\* ------------------------------------------------------------------------
\* internal/x402: networks
\* ------------------------------------------------------------------------

solanaNetworkAliases ==
    [n \in {"solana", "solana-mainnet", "solana-mainnet-beta", "mainnet-beta",
            "solana-devnet", "devnet", "solana-testnet", "testnet"} |->
        CASE n \in {"solana-devnet", "devnet"} -> SolanaDevnet
          [] n \in {"solana-testnet", "testnet"} -> SolanaTestnet
          [] OTHER -> SolanaMainnet]

networkNameToChainID ==
    [n \in {"ethereum", "mainnet", "base", "polygon", "arbitrum", "optimism",
            "avalanche", "bsc", "sepolia", "goerli", "base-sepolia",
            "base_sepolia", "basesepolia", "mumbai"} |->
        CASE n \in {"ethereum", "mainnet"} -> 1
          [] n = "base" -> 8453
          [] n = "polygon" -> 137
          [] n = "arbitrum" -> 42161
          [] n = "optimism" -> 10
          [] n = "avalanche" -> 43114
          [] n = "bsc" -> 56
          [] n = "sepolia" -> 11155111
          [] n = "goerli" -> 5
          [] n = "mumbai" -> 80001
          [] OTHER -> 84532]

IsEVMNetwork(network) ==
    \/ HasPrefix(network, caip2EVMPrefix) /\ network # caip2EVMPrefix
    \/ network \in DOMAIN networkNameToChainID

IsSolanaNetwork(network) ==
    \/ HasPrefix(network, caip2SolanaPrefix) /\ network # caip2SolanaPrefix
    \/ network \in DOMAIN solanaNetworkAliases

\* (chainID, err)
ExtractChainID(network) ==
    IF HasPrefix(network, caip2EVMPrefix)
    THEN LET r == ScanChainID(network)
         IN  IF r.ok THEN [err |-> FALSE, id |-> r.id] ELSE [err |-> TRUE, id |-> 0]
    ELSE IF network \in DOMAIN networkNameToChainID
         THEN [err |-> FALSE, id |-> networkNameToChainID[network]]
         ELSE [err |-> TRUE, id |-> 0]

\* the first element of accepts whose network satisfies the test, or nil
FindEVMOption(pr) ==
    LET hits == {i \in 1..Len(pr.accepts) : IsEVMNetwork(pr.accepts[i].network)}
    IN  IF hits = {} THEN Nil
        ELSE pr.accepts[CHOOSE i \in hits : \A j \in hits : i <= j]

\* a search that takes the first option whatever its network
FindSolanaOptionFirst(pr) == IF Len(pr.accepts) = 0 THEN Nil ELSE pr.accepts[1]

FindSolanaOption(pr) ==
    LET hits == {i \in 1..Len(pr.accepts) : IsSolanaNetwork(pr.accepts[i].network)}
    IN  IF hits = {} THEN Nil
        ELSE pr.accepts[CHOOSE i \in hits : \A j \in hits : i <= j]

\* GetAmount with the version 1 field taking priority
GetAmountV1Priority(p) == IF p.maxAmountRequired # <<>> THEN p.maxAmountRequired ELSE p.amount

GetAmount(p) == IF p.amount # <<>> THEN p.amount ELSE p.maxAmountRequired

\* ------------------------------------------------------------------------
\* internal/tokens: registry and amounts
\* ------------------------------------------------------------------------

\* the keys of knownTokens, each "network:asset" key split at its last colon
knownTokens ==
    { <<"eip155:8453", "0x833589fcd6edb6e08f4c7c32d4f71b54bda02913">>,
      <<"base", "0x833589fcd6edb6e08f4c7c32d4f71b54bda02913">>,
      <<"eip155:84532", "0x036cbd53842c5426634e7929541ec2318f3dcf7e">>,
      <<"base-sepolia", "0x036cbd53842c5426634e7929541ec2318f3dcf7e">>,
      <<"basesepolia", "0x036cbd53842c5426634e7929541ec2318f3dcf7e">>,
      <<"eip155:1", "0xa0b86991c6218b36c1d19d4a2e9eb0ce3606eb48">>,
      <<"ethereum", "0xa0b86991c6218b36c1d19d4a2e9eb0ce3606eb48">>,
      <<"mainnet", "0xa0b86991c6218b36c1d19d4a2e9eb0ce3606eb48">>,
      <<"eip155:11155111", "0x1c7d4b196cb0c7b01d743fbc6116a902379c7238">>,
      <<"sepolia", "0x1c7d4b196cb0c7b01d743fbc6116a902379c7238">>,
      <<"solana:5eykt4usfv8p8njdtrepyvzqkqzkvdp", "epjfwdd5aufqssqem2qn1xzybapC8g4weggkzwytdt1v">>,
      <<"solana", "epjfwdd5aufqssqem2qn1xzybapC8g4weggkzwytdt1v">>,
      <<"solana-mainnet-beta", "epjfwdd5aufqssqem2qn1xzybapC8g4weggkzwytdt1v">>,
      <<"solana-mainnet", "epjfwdd5aufqssqem2qn1xzybapC8g4weggkzwytdt1v">>,
      <<"mainnet-beta", "epjfwdd5aufqssqem2qn1xzybapC8g4weggkzwytdt1v">>,
      <<"solana:etwtraBzayq6imfeykourU166vu2xqa1", "4zmmc9srt5ri5x14gagxhahii3gnpaeeryPjgzjdncdu">>,
      <<"solana-devnet", "4zmmc9srt5ri5x14gagxhahii3gnpaeeryPjgzjdncdu">>,
      <<"devnet", "4zmmc9srt5ri5x14gagxhahii3gnpaeeryPjgzjdncdu">> }

\* every registered token has 6 decimals
TokenDecimals == 6

\* GetTokenInfo(network, asset) != nil
TokenIsKnown(network, asset) == <<ToLower(network), ToLower(asset)>> \in knownTokens

GetTokenInfo(network, asset) ==
    IF TokenIsKnown(network, asset) THEN [Symbol |-> "USDC", Decimals |-> TokenDecimals]
    ELSE Nil

explorerURLs ==
    {"eip155:1", "eip155:8453", "eip155:84532", "eip155:11155111", "eip155:137",
     "eip155:42161", "eip155:10", "ethereum", "mainnet", "base", "base-sepolia",
     "base_sepolia", "basesepolia", "sepolia", "polygon", "arbitrum", "optimism",
     SolanaMainnet, SolanaDevnet, SolanaTestnet}

\* "" when the network has no explorer, else the link to the transaction
GetExplorerURL(network, txHash) ==
    IF network \in explorerURLs THEN <<"tx", network, txHash>> ELSE <<>>

\* ---- amount strings: sequences of ASCII codes ("0".."9" are 48..57, "." is 46,
\* " " is 32)

IsDigit(c) == c \in 48..57

RECURSIVE DigitsValue(_)
DigitsValue(s) ==
    IF s = <<>> THEN 0
    ELSE 10 * DigitsValue(SubSeq(s, 1, Len(s) - 1)) + (s[Len(s)] - 48)

RECURSIVE NatToString(_)
NatToString(n) ==
    IF n < 10 THEN <<48 + n>> ELSE NatToString(n \div 10) \o <<48 + (n % 10)>>

\* the longest prefix of s made of digits
LeadingDigits(s) ==
    LET stop == {i \in 1..Len(s) : ~IsDigit(s[i])}
    IN  IF stop = {} THEN s
        ELSE SubSeq(s, 1, (CHOOSE i \in stop : \A j \in stop : i <= j) - 1)

\* a SetString that is content with the digits a string starts with
SetStringPrefix(s) ==
    [ok |-> LeadingDigits(s) # <<>>, val |-> DigitsValue(LeadingDigits(s))]

\* new(big.Int).SetString(s, 10): a decimal string with an optional sign ("+"
\* is 43, "-" is 45); ok says whether the whole string was a number; val is
\* what the receiver holds afterwards (on failure the digits the scanner had
\* consumed, which is what math/big leaves)
SetString(s) ==
    LET signed == s # <<>> /\ s[1] \in {43, 45}
        digits == IF signed THEN Tail(s) ELSE s
        magnitude == DigitsValue(LeadingDigits(digits))
    IN  [ok |-> digits # <<>> /\ \A i \in 1..Len(digits) : IsDigit(digits[i]),
         val |-> IF signed /\ s[1] = 45 THEN 0 - magnitude ELSE magnitude]

RECURSIVE TrimLeft(_)
TrimLeft(s) == IF s # <<>> /\ s[1] = 32 THEN TrimLeft(Tail(s)) ELSE s

RECURSIVE TrimRight(_)
TrimRight(s) ==
    IF s # <<>> /\ s[Len(s)] = 32 THEN TrimRight(SubSeq(s, 1, Len(s) - 1)) ELSE s

TrimSpace(s) == TrimRight(TrimLeft(s))

Zeros(n) == [i \in 1..n |-> 48]

\* (raw, err): err is "" on success
ParseHumanAmount(humanAmount, decimals) ==
    LET h == TrimSpace(humanAmount)
        dots == {i \in 1..Len(h) : h[i] = 46}
        d == IF dots = {} THEN 0 ELSE CHOOSE i \in dots : TRUE
        intPart == IF dots = {} THEN h ELSE SubSeq(h, 1, d - 1)
        decPart == IF dots = {} THEN <<>> ELSE SubSeq(h, d + 1, Len(h))
        padded == IF Len(decPart) < decimals
                  THEN decPart \o Zeros(decimals - Len(decPart))
                  ELSE SubSeq(decPart, 1, decimals)
        raw == SetString(intPart \o padded)
    IN  IF h = <<>> THEN [raw |-> <<>>, err |-> "empty amount"]
        ELSE IF Cardinality(dots) > 1 THEN [raw |-> <<>>, err |-> "invalid amount format"]
        ELSE IF ~raw.ok THEN [raw |-> <<>>, err |-> "invalid amount"]
        ELSE [raw |-> NatToString(raw.val), err |-> ""]

\* -1, 0 or 1
CompareAmounts(a, b) ==
    LET amountA == SetString(a).val
        amountB == SetString(b).val
    IN  IF amountA < amountB THEN -1 ELSE IF amountA = amountB THEN 0 ELSE 1

\* ------------------------------------------------------------------------
\* Texts on the wire: base64 and JSON
\* ------------------------------------------------------------------------

EmptyText == [kind |-> "empty", doc |-> Nil]
Garbage == [kind |-> "garbage", doc |-> Nil]
Unreadable == [kind |-> "unreadable", doc |-> Nil]
B64Garbage == [kind |-> "b64garbage", doc |-> Nil]
JSONText(doc) == [kind |-> "json", doc |-> doc]
PlainText(lead, text) == [kind |-> "plain", doc |-> [lead |-> lead, text |-> text]]

\* base64.StdEncoding.EncodeToString / DecodeString
B64Encode(t) ==
    IF t.kind = "json" THEN [kind |-> "b64json", doc |-> t.doc] ELSE B64Garbage

\* a decoder that accepts every text
B64DecodeAny(t) ==
    [ok |-> TRUE, text |-> IF t.kind = "b64json" THEN JSONText(t.doc) ELSE Garbage]

B64Decode(t) ==
    CASE t.kind = "b64json" -> [ok |-> TRUE, text |-> JSONText(t.doc)]
      [] t.kind = "b64garbage" -> [ok |-> TRUE, text |-> Garbage]
      [] t.kind = "empty" -> [ok |-> TRUE, text |-> EmptyText]
      [] OTHER -> [ok |-> FALSE, text |-> EmptyText]

\* json.Marshal / json.Unmarshal
JSONMarshal(doc) == JSONText(doc)

JSONUnmarshal(t) ==
    IF t.kind = "json" THEN [ok |-> TRUE, doc |-> t.doc] ELSE [ok |-> FALSE, doc |-> Nil]

\* resp.Header.Get(name): the empty string when the header is absent
HeaderGet(resp, name) ==
    IF name \in DOMAIN resp.Header THEN resp.Header[name] ELSE EmptyText

\* ------------------------------------------------------------------------
\* internal/x402: the codec
\* ------------------------------------------------------------------------

\* the error texts of ParsePaymentRequired and ParsePaymentResponse (the
\* wrapped cause after the colon is left out)
ErrReadBody == "failed to read response body"
ErrHeaderBase64(name) == "invalid base64 in " \o name \o " header"
ErrHeaderJSON(name) == "invalid JSON in " \o name \o " header"
ErrEmptyBody == "empty response body (expected JSON payment requirements)"
ErrBodyJSON == "invalid JSON in response body"
ErrNoAccepts == "no payment options in accepts[] array"

\* ParsePaymentRequired with the protocol taken from the body when the body
\* is a JSON document, and from the header only otherwise
ParsePaymentRequiredBodyFirst(resp) ==
    LET paymentRequiredHeader == HeaderGet(resp, HeaderPaymentRequired)
        decoded == B64Decode(paymentRequiredHeader)
        fromHeader == JSONUnmarshal(decoded.text)
        fromBody == JSONUnmarshal(resp.Body)
        version == IF paymentRequiredHeader # EmptyText /\ ~fromBody.ok
                   THEN ProtocolV2 ELSE ProtocolV1
        parsed == IF version = ProtocolV2 THEN fromHeader ELSE fromBody
    IN  IF resp.Body = Unreadable
            THEN [result |-> Nil, err |-> ErrReadBody]
        ELSE IF version = ProtocolV2 /\ ~decoded.ok
            THEN [result |-> Nil, err |-> ErrHeaderBase64(HeaderPaymentRequired)]
        ELSE IF version = ProtocolV2 /\ ~parsed.ok
            THEN [result |-> Nil, err |-> ErrHeaderJSON(HeaderPaymentRequired)]
        ELSE IF version = ProtocolV1 /\ resp.Body = EmptyText
            THEN [result |-> Nil, err |-> ErrEmptyBody]
        ELSE IF version = ProtocolV1 /\ ~parsed.ok
            THEN [result |-> Nil, err |-> ErrBodyJSON]
        ELSE IF Len(parsed.doc.accepts) = 0
            THEN [result |-> Nil, err |-> ErrNoAccepts]
        ELSE [result |-> [ProtocolVersion |-> version, PaymentRequired |-> parsed.doc],
              err |-> ""]

\* (result, err): err is "" on success, and the result is Nil otherwise
ParsePaymentRequired(resp) ==
    LET paymentRequiredHeader == HeaderGet(resp, HeaderPaymentRequired)
        decoded == B64Decode(paymentRequiredHeader)
        fromHeader == JSONUnmarshal(decoded.text)
        fromBody == JSONUnmarshal(resp.Body)
        version == IF paymentRequiredHeader # EmptyText THEN ProtocolV2 ELSE ProtocolV1
        parsed == IF version = ProtocolV2 THEN fromHeader ELSE fromBody
    IN  IF resp.Body = Unreadable
            THEN [result |-> Nil, err |-> ErrReadBody]
        ELSE IF version = ProtocolV2 /\ ~decoded.ok
            THEN [result |-> Nil, err |-> ErrHeaderBase64(HeaderPaymentRequired)]
        ELSE IF version = ProtocolV2 /\ ~parsed.ok
            THEN [result |-> Nil, err |-> ErrHeaderJSON(HeaderPaymentRequired)]
        ELSE IF version = ProtocolV1 /\ resp.Body = EmptyText
            THEN [result |-> Nil, err |-> ErrEmptyBody]
        ELSE IF version = ProtocolV1 /\ ~parsed.ok
            THEN [result |-> Nil, err |-> ErrBodyJSON]
        ELSE IF Len(parsed.doc.accepts) = 0
            THEN [result |-> Nil, err |-> ErrNoAccepts]
        ELSE [result |-> [ProtocolVersion |-> version, PaymentRequired |-> parsed.doc],
              err |-> ""]

\* ParsePaymentResponse reading whichever settlement header the response has
ParsePaymentResponseEitherHeader(resp, protocolVersion) ==
    LET name == IF HeaderGet(resp, HeaderPaymentResponse) # EmptyText
                THEN HeaderPaymentResponse ELSE HeaderXPaymentResponse
        headerValueGot == HeaderGet(resp, name)
        decoded == B64Decode(headerValueGot)
        pr == JSONUnmarshal(decoded.text)
    IN  IF headerValueGot = EmptyText THEN [pr |-> Nil, err |-> ""]
        ELSE IF ~decoded.ok THEN [pr |-> Nil, err |-> ErrHeaderBase64(name)]
        ELSE IF ~pr.ok THEN [pr |-> Nil, err |-> ErrHeaderJSON(name)]
        ELSE [pr |-> pr.doc, err |-> ""]

\* (paymentResponse, err): Nil and "" when the header is absent
ParsePaymentResponse(resp, protocolVersion) ==
    LET name == IF protocolVersion = ProtocolV2
                THEN HeaderPaymentResponse ELSE HeaderXPaymentResponse
        headerValueGot == HeaderGet(resp, name)
        decoded == B64Decode(headerValueGot)
        pr == JSONUnmarshal(decoded.text)
    IN  IF headerValueGot = EmptyText THEN [pr |-> Nil, err |-> ""]
        ELSE IF ~decoded.ok THEN [pr |-> Nil, err |-> ErrHeaderBase64(name)]
        ELSE IF ~pr.ok THEN [pr |-> Nil, err |-> ErrHeaderJSON(name)]
        ELSE [pr |-> pr.doc, err |-> ""]

\* an accepted option that echoes the version 1 amount field
AcceptedOptionMaxAmount(option) ==
    [scheme |-> option.scheme, network |-> option.network,
     amount |-> option.maxAmountRequired, asset |-> option.asset, payTo |-> option.payTo]

AcceptedOption(option) ==
    [scheme |-> option.scheme, network |-> option.network,
     amount |-> GetAmount(option), asset |-> option.asset, payTo |-> option.payTo]

BuildPayloadV2(resource, option, signature, auth) ==
    [x402Version |-> ProtocolV2, resource |-> resource,
     accepted |-> AcceptedOption(option),
     payload |-> [signature |-> signature, authorization |-> auth]]

BuildPayloadV1(option, signature, auth) ==
    [x402Version |-> ProtocolV1, scheme |-> option.scheme, network |-> option.network,
     payload |-> [signature |-> signature, authorization |-> auth]]

\* the Solana payload carries the serialized transaction in place of a
\* signature and authorization
BuildPayloadV2Solana(resource, option, transaction) ==
    [x402Version |-> ProtocolV2, resource |-> resource,
     accepted |-> AcceptedOption(option),
     payload |-> [transaction |-> transaction]]

EncodePayload(payload) == B64Encode(JSONMarshal(payload))

\* (headerName, headerValue)
BuildAndEncodePayload(protocolVersion, resource, option, signature, auth) ==
    IF protocolVersion = ProtocolV2
    THEN [headerName |-> HeaderPaymentSignature,
          headerValue |-> EncodePayload(BuildPayloadV2(resource, option, signature, auth))]
    ELSE [headerName |-> HeaderXPayment,
          headerValue |-> EncodePayload(BuildPayloadV1(option, signature, auth))]

\* ------------------------------------------------------------------------
\* internal/commands: the selector
\* ------------------------------------------------------------------------

\* a selector that falls back to the EVM option when the Solana one is missing
selectPaymentOptionFallback(solanaOpt, evmOpt, hasSolanaKeypair) ==
    IF hasSolanaKeypair /\ solanaOpt # Nil
    THEN [option |-> solanaOpt, isSolana |-> TRUE, err |-> ""]
    ELSE IF evmOpt # Nil
    THEN [option |-> evmOpt, isSolana |-> FALSE, err |-> ""]
    ELSE [option |-> Nil, isSolana |-> FALSE, err |-> "no supported payment options found"]

\* (option, isSolana, err): err is "" on success
selectPaymentOption(solanaOpt, evmOpt, hasSolanaKeypair) ==
    IF hasSolanaKeypair
    THEN IF solanaOpt # Nil
            THEN [option |-> solanaOpt, isSolana |-> TRUE, err |-> ""]
         ELSE IF evmOpt # Nil
            THEN [option |-> Nil, isSolana |-> FALSE,
                  err |-> "endpoint does not accept Solana payments, but --solana-keypair was provided"]
         ELSE [option |-> Nil, isSolana |-> FALSE, err |-> "no supported payment options found"]
    ELSE IF evmOpt # Nil
            THEN [option |-> evmOpt, isSolana |-> FALSE, err |-> ""]
         ELSE IF solanaOpt # Nil
            THEN [option |-> Nil, isSolana |-> FALSE,
                  err |-> "endpoint only accepts Solana payments (use --solana-keypair)"]
         ELSE [option |-> Nil, isSolana |-> FALSE, err |-> "no supported payment options found"]

\* ------------------------------------------------------------------------
\* Inputs: what the caller passes and what the servers answer
\* ------------------------------------------------------------------------

Amount10000 == <<49, 48, 48, 48, 48>>                    \* "10000"
Amount2000000 == <<50, 48, 48, 48, 48, 48, 48>>          \* "2000000"
Human005 == <<48, 46, 48, 53>>                           \* "0.05"
HumanABC == <<97, 98, 99>>                               \* "abc"
Human0 == <<48>>                                         \* "0"

MaxAmounts == {<<>>, Human0, Human005, HumanABC}

Requirement(network, asset, amount, maxAmountRequired) ==
    [scheme |-> "exact", network |-> network, amount |-> amount,
     maxAmountRequired |-> maxAmountRequired, asset |-> asset, payTo |-> "payee",
     maxTimeoutSeconds |-> IF network = "base" THEN 0 ELSE 60,
     extra |-> [feePayer |-> IF network = SolanaDevnet THEN "facilitator" ELSE ""]]

Requirements ==
    { Requirement("eip155:8453", AssetBaseUSDC, Amount2000000, <<>>),
      Requirement("base", "0x833589fcd6edb6e08f4c7c32d4f71b54bda02913", <<>>, Amount10000),
      Requirement("eip155:8453", AssetUnknown, Amount2000000, <<>>),
      Requirement(SolanaDevnet, AssetDevnetUSDC, Amount10000, Amount2000000),
      Requirement("eip155:x", AssetUnknown, Amount10000, <<>>),
      Requirement("near:mainnet", AssetUnknown, <<>>, <<>>) }

SeqsUpTo(S, n) == UNION {[1..k -> S] : k \in 0..n}

PaymentRequiredDoc(version, accepts) ==
    [x402Version |-> version,
     resource |-> [URL |-> IF version = ProtocolV2 THEN "https://api/resource" ELSE ""],
     accepts |-> accepts]

\* the body a v2 server sends beside its header: another document
DecoyBody ==
    JSONText(PaymentRequiredDoc(ProtocolV1,
        <<Requirement("base", AssetUnknown, <<>>, Amount2000000)>>))

NoHeader == <<>>

Response(status, header, body) == [StatusCode |-> status, Header |-> header, Body |-> body]

InitialResponses ==
    {Response(st, NoHeader, DecoyBody) : st \in {StatusOK, StatusInternalServerError}}
    \cup {Response(StatusPaymentRequired,
                   HeaderPaymentRequired :> B64Encode(JSONText(PaymentRequiredDoc(ProtocolV2, a))),
                   DecoyBody) : a \in SeqsUpTo(Requirements, MaxAccepts)}
    \cup {Response(StatusPaymentRequired, NoHeader, JSONText(PaymentRequiredDoc(ProtocolV1, a))) :
            a \in SeqsUpTo(Requirements, MaxAccepts)}
    \cup {Response(StatusPaymentRequired, HeaderPaymentRequired :> h, EmptyText) :
            h \in {Garbage, B64Garbage, JSONText(PaymentRequiredDoc(ProtocolV2, <<>>))}}
    \cup {Response(StatusPaymentRequired, NoHeader, b) : b \in {EmptyText, Garbage}}

SettlementDoc(transaction) ==
    [success |-> TRUE, transaction |-> transaction, network |-> "eip155:8453"]

SettlementHeaders ==
    {NoHeader}
    \cup {n :> t : n \in {HeaderPaymentResponse, HeaderXPaymentResponse},
                   t \in {Garbage, B64Garbage,
                          B64Encode(JSONText(SettlementDoc("0xtx"))),
                          B64Encode(JSONText(SettlementDoc("")))}}

RetryResponses ==
    {Response(st, h, JSONText(Nil)) :
        st \in {StatusOK, StatusPaymentRequired, StatusInternalServerError},
        h \in SettlementHeaders}

\* a -H argument as strings.Cut(h, ":") sees it: the text before the first
\* colon, whether there was a colon, and the text after it (lead spaces, text)
RawHeader(key, found, lead, text) ==
    [key |-> key, found |-> found, lead |-> lead, text |-> text]

CallerRequests ==
    { [method |-> "GET", data |-> "",
       hdrs |-> <<RawHeader("Accept", TRUE, 1, "application/json")>>],
      [method |-> "POST", data |-> "{}",
       hdrs |-> <<RawHeader("Accept", TRUE, 1, "application/json"),
                  RawHeader("x-payment", TRUE, 0, "from-caller"),
                  RawHeader(HeaderPaymentSignature, TRUE, 2, "from-caller"),
                  RawHeader("no-colon", FALSE, 0, "")>>] }

\* ------------------------------------------------------------------------
\* runTest: the main goroutine
\* ------------------------------------------------------------------------

url == "https://api/endpoint"

\* test.go:115-120: headers[key] = strings.TrimPrefix(value, " ") for every
\* argument that has a colon
RECURSIVE BuildHeaders(_)
BuildHeaders(raw) ==
    IF raw = <<>> THEN <<>>
    ELSE LET h == raw[Len(raw)]
             before == BuildHeaders(SubSeq(raw, 1, Len(raw) - 1))
             value == PlainText(IF h.lead > 0 THEN h.lead - 1 ELSE 0, h.text)
         IN  IF h.found
             THEN [k \in DOMAIN before \cup {h.key} |-> IF k = h.key THEN value ELSE before[k]]
             ELSE before

\* test.go:122-125
RequestBody == IF requestData # "" THEN [bytes |-> requestData] ELSE Nil

\* textproto.CanonicalMIMEHeaderKey, which http.Header.Set applies to the key:
\* of the header names of the model only "x-payment" is not canonical already
CanonicalMIMEHeaderKey(key) ==
    CASE key = "x-payment" -> HeaderXPayment
      [] OTHER -> key

\* client.go:94-97: req.Header.Set(k, v) for every entry of the map, in the
\* order the range over the map happens to take: of the entries whose keys are
\* the same header, the one visited last stays. The set of the headers the
\* request may leave with.
SetHeaders(m) ==
    LET keys == {CanonicalMIMEHeaderKey(k) : k \in DOMAIN m}
    IN  {h \in [keys -> {m[k] : k \in DOMAIN m}] :
            \A c \in keys : \E k \in DOMAIN m :
                CanonicalMIMEHeaderKey(k) = c /\ h[c] = m[k]}

\* client.go:82-100: the requests Request may issue for the arguments of
\* TimedRequest
Request(method, target, hdrs, body) ==
    {[method |-> method, url |-> target, headers |-> h, body |-> body] :
        h \in SetHeaders(hdrs)}

Init ==
    /\ solanaKeypairPath \in {"", "id.json"}
    /\ dryRun \in BOOLEAN
    /\ jsonOutput \in BOOLEAN
    /\ skipPaymentConfirmation \in BOOLEAN
    /\ maxAmount \in MaxAmounts
    /\ \E c \in CallerRequests :
          /\ requestMethod = c.method
          /\ requestData = c.data
          /\ requestHeaders = c.hdrs
          /\ headers = BuildHeaders(c.hdrs)
    /\ pc = "Requesting"
    /\ signatureSent = FALSE
    /\ reqResult = Nil
    /\ parseResult = Nil
    /\ paymentOption = Nil
    /\ isSolana = FALSE
    /\ chainID = 0
    /\ tokenKnown = FALSE
    /\ keyLoaded = ""
    /\ signParams = Nil
    /\ signResult = Nil
    /\ headerName = ""
    /\ headerValue = EmptyText
    /\ retryResult = Nil
    /\ result = Nil
    /\ outcome = "Running"
    /\ failure = ""
    /\ sent = <<>>
    /\ parseCalls = 0
    /\ signerCalls = 0
    /\ hpc = "waiting"
    /\ hread = FALSE
    /\ report = ""
    /\ sigAt = ""
    /\ fn = ""
    /\ args = Nil
    /\ ret = Nil
    /\ bpc = "idle"
    /\ iLoop = 0
    /\ results = <<>>
    /\ semaphore = 0
    /\ wg = 0
    /\ mu = FALSE
    /\ stopped = FALSE
    /\ stopChan = "open"
    /\ workers = <<>>
    /\ checks = <<>>
    /\ writes = <<>>
    /\ summary = [next |-> 1, passed |-> 0, passedWarn |-> 0, failed |-> 0, err |-> "",
                  printed |-> FALSE]

\* runTest returns err
Fail(why) ==
    /\ outcome' = "Failed"
    /\ failure' = why
    /\ pc' = "done"

\* test.go:387-397: the rejected result is printed; runTest returns nil
\* after output.PrintJSON with --json, and errors.New(result.Error) without
Reject(why) ==
    /\ outcome' = "Rejected"
    /\ failure' = IF jsonOutput THEN "" ELSE why
    /\ pc' = "done"

\* runTest returns nil
End(how) ==
    /\ outcome' = how
    /\ failure' = ""
    /\ pc' = "done"

\* a runTest that sets the latch only when the retry has been answered
StepAfterLatchLate(step) ==
    CASE step = "Requesting" -> "Negotiating"
      [] step = "Negotiating" -> "Selecting"
      [] step = "Selecting" -> "LoadingKey"
      [] step = "LoadingKey" -> "Confirming"
      [] step = "Confirming" -> "Signing"
      [] step = "Signing" -> "Building"
      [] step = "Building" -> "Attaching"
      [] step = "Attaching" -> "Retrying"
      [] step = "Retrying" -> "Latching"
      [] step = "Latching" -> "Verifying"

\* a runTest that signs afresh once the retry has been answered
StepAfterSignAgain(step) ==
    CASE step = "Requesting" -> "Negotiating"
      [] step = "Negotiating" -> "Selecting"
      [] step = "Selecting" -> "LoadingKey"
      [] step = "LoadingKey" -> "Confirming"
      [] step = "Confirming" -> "Signing"
      [] step = "Signing" -> "Building"
      [] step = "Building" -> "Latching"
      [] step = "Latching" -> "Attaching"
      [] step = "Attaching" -> "Retrying"
      [] step = "Retrying" -> "Signing"

\* a runTest that asks for confirmation once the authorization is signed
StepAfterConfirmLate(step) ==
    CASE step = "Requesting" -> "Negotiating"
      [] step = "Negotiating" -> "Selecting"
      [] step = "Selecting" -> "LoadingKey"
      [] step = "LoadingKey" -> "Signing"
      [] step = "Signing" -> "Confirming"
      [] step = "Confirming" -> "Building"
      [] step = "Building" -> "Latching"
      [] step = "Latching" -> "Attaching"
      [] step = "Attaching" -> "Retrying"
      [] step = "Retrying" -> "Verifying"

\* a runTest that sets the latch before it signs
StepAfterLatchFirst(step) ==
    CASE step = "Requesting" -> "Negotiating"
      [] step = "Negotiating" -> "Selecting"
      [] step = "Selecting" -> "LoadingKey"
      [] step = "LoadingKey" -> "Confirming"
      [] step = "Confirming" -> "Latching"
      [] step = "Latching" -> "Signing"
      [] step = "Signing" -> "Building"
      [] step = "Building" -> "Attaching"
      [] step = "Attaching" -> "Retrying"
      [] step = "Retrying" -> "Verifying"

\* the order of the steps of runTest (test.go:107-397)
StepAfter(step) ==
    CASE step = "Requesting" -> "Negotiating"
      [] step = "Negotiating" -> "Selecting"
      [] step = "Selecting" -> "LoadingKey"
      [] step = "LoadingKey" -> "Confirming"
      [] step = "Confirming" -> "Signing"
      [] step = "Signing" -> "Building"
      [] step = "Building" -> "Latching"
      [] step = "Latching" -> "Attaching"
      [] step = "Attaching" -> "Retrying"
      [] step = "Retrying" -> "Verifying"

\* runTest goes on with its next step
Proceed ==
    /\ pc' = StepAfter(pc)
    /\ UNCHANGED <<outcome, failure>>

\* a runTest without the branch for 200: only error statuses stop it
ClassifyInitialNo200(status) ==
    IF status # StatusPaymentRequired /\ status # StatusOK THEN "Failed" ELSE "Proceed"

\* a runTest that does not insist on 402
ClassifyInitialNo402(status) ==
    IF status = StatusOK THEN "Success" ELSE "Proceed"

\* test.go:134-151: what the status of the initial response leads to
ClassifyInitial(status) ==
    IF status # StatusPaymentRequired
    THEN IF status = StatusOK THEN "Success" ELSE "Failed"
    ELSE "Proceed"

\* test.go:127-151: the initial request and the check of its status
Requesting ==
    /\ outcome = "Running" /\ pc = "Requesting"
    /\ \E req \in Request(requestMethod, url, headers, RequestBody) :
          sent' = Append(sent, req)
    /\ \/ /\ Fail("connection failed")
          /\ UNCHANGED reqResult
       \/ \E resp \in InitialResponses :
             /\ reqResult' = resp
             /\ CASE ClassifyInitial(resp.StatusCode) = "Success" -> End("Success")
                  [] ClassifyInitial(resp.StatusCode) = "Failed" -> Fail("expected 402")
                  [] OTHER -> Proceed
    /\ UNCHANGED <<fnVars, batchVars, flagVars, handlerVars, signatureSent, headers, parseResult,
                   paymentOption, isSolana, chainID, tokenKnown, keyLoaded, signParams, signResult,
                   headerName, headerValue, retryResult, result, parseCalls, signerCalls>>

\* test.go:158-161
Negotiating ==
    /\ outcome = "Running" /\ pc = "Negotiating"
    /\ parseCalls' = parseCalls + 1
    /\ LET parsed == ParsePaymentRequired(reqResult)
       IN  IF parsed.err # ""
           THEN /\ Fail("failed to parse payment requirements")
                /\ UNCHANGED parseResult
           ELSE /\ parseResult' = parsed.result
                /\ Proceed
    \* the body is drained; of the response only the status is read from here on
    /\ reqResult' = [StatusCode |-> reqResult.StatusCode]
    /\ UNCHANGED <<fnVars, batchVars, flagVars, handlerVars, signatureSent, headers,
                   paymentOption, isSolana, chainID, tokenKnown, keyLoaded, signParams, signResult,
                   headerName, headerValue, retryResult, result, sent, signerCalls>>

\* test.go:195-205: "" when the amount passes the --max-amount check, else the error
MaxAmountCheck(option, known) ==
    IF maxAmount # <<>> /\ known
    THEN LET tokenInfo == GetTokenInfo(option.network, option.asset)
             maxRaw == ParseHumanAmount(maxAmount, tokenInfo.Decimals)
         IN  IF maxRaw.err # "" THEN "invalid --max-amount"
             ELSE IF CompareAmounts(GetAmount(option), maxRaw.raw) > 0
                  THEN "payment amount exceeds maximum"
                  ELSE ""
    ELSE ""

\* test.go:208-226
NewTestResult(status, version, option) ==
    [URL |-> url, Status |-> status, Protocol |-> version,
     Network |-> option.network, Amount |-> GetAmount(option),
     Transaction |-> "", TransactionURL |-> <<>>, PaymentResponse |-> Nil,
     DryRun |-> dryRun, ExitCode |-> 0, Error |-> ""]

\* test.go:163-247: selection, chain id, the --max-amount cap, dry run
Selecting ==
    /\ outcome = "Running" /\ pc = "Selecting"
    /\ LET pr == parseResult.PaymentRequired
           solanaOption == FindSolanaOption(pr)
           evmOption == FindEVMOption(pr)
           sel == selectPaymentOption(solanaOption, evmOption, solanaKeypairPath # "")
           cid == IF sel.isSolana THEN [err |-> FALSE, id |-> 0]
                  ELSE ExtractChainID(sel.option.network)
           known == GetTokenInfo(sel.option.network, sel.option.asset) # Nil
           capErr == MaxAmountCheck(sel.option, known)
       IN  /\ IF sel.err # ""
              THEN /\ Fail(sel.err)
                   /\ UNCHANGED <<paymentOption, isSolana, chainID, tokenKnown, result>>
              ELSE /\ paymentOption' = sel.option
                   /\ isSolana' = sel.isSolana
                   /\ IF cid.err
                      THEN /\ Fail("invalid network")
                           /\ UNCHANGED <<chainID, tokenKnown, result>>
                      ELSE /\ chainID' = cid.id
                           /\ tokenKnown' = known
                           /\ IF capErr # ""
                              THEN /\ Fail(capErr)
                                   /\ UNCHANGED result
                              ELSE /\ result' = NewTestResult(reqResult.StatusCode,
                                                     parseResult.ProtocolVersion, sel.option)
                                   /\ IF dryRun THEN End("DryRun") ELSE Proceed
           \* accepts[] is not read again: only the version and the resource are
           /\ parseResult' = [ProtocolVersion |-> parseResult.ProtocolVersion,
                              Resource |-> pr.resource]
    /\ UNCHANGED <<fnVars, batchVars, flagVars, handlerVars, signatureSent, headers, reqResult, keyLoaded,
                   signParams, signResult, headerName, headerValue, retryResult, sent, parseCalls,
                   signerCalls>>

\* test.go:249-280: the key of the chain the tag names; loading may fail
LoadingKey ==
    /\ outcome = "Running" /\ pc = "LoadingKey"
    /\ \E loaded \in BOOLEAN :
          IF loaded
          THEN /\ keyLoaded' = IF isSolana THEN "solana" ELSE "evm"
               /\ Proceed
          ELSE /\ Fail(IF isSolana THEN "failed to load Solana keypair"
                                   ELSE "failed to load wallet")
               /\ UNCHANGED keyLoaded
    /\ UNCHANGED <<fnVars, batchVars, flagVars, handlerVars, signatureSent, headers, reqResult, parseResult,
                   paymentOption, isSolana, chainID, tokenKnown, signParams, signResult, headerName,
                   headerValue, retryResult, result, sent, parseCalls, signerCalls>>

\* test.go:286-293: the prompt, shown on a terminal unless skipped
Confirming ==
    /\ outcome = "Running" /\ pc = "Confirming"
    /\ \E isTTY \in BOOLEAN, yes \in BOOLEAN :
          IF ~skipPaymentConfirmation /\ isTTY /\ ~yes
          THEN End("Declined")
          ELSE Proceed
    /\ UNCHANGED <<fnVars, batchVars, flagVars, handlerVars, signatureSent, headers, reqResult, parseResult,
                   paymentOption, isSolana, chainID, tokenKnown, keyLoaded, signParams, signResult,
                   headerName, headerValue, retryResult, result, sent, parseCalls,
                   signerCalls>>

\* option.GetExtraString(key): the empty string for a key the extra map of
\* the requirement does not hold
GetExtraString(option, key) ==
    IF key \in DOMAIN option.extra THEN option.extra[key] ELSE ""

\* the fields a builder does not set hold Go's zero values
PrepareSignParams(option, fromAddress, id) ==
    [ChainID |-> id, TokenAddress |-> option.asset,
     TokenName |-> IF GetExtraString(option, "name") = ""
                   THEN "USDC" ELSE GetExtraString(option, "name"),
     TokenVersion |-> IF GetExtraString(option, "version") = ""
                      THEN "2" ELSE GetExtraString(option, "version"),
     From |-> fromAddress, To |-> option.payTo, Value |-> GetAmount(option),
     ValidAfter |-> 0, ValidBefore |-> 0, TimeoutSeconds |-> option.maxTimeoutSeconds,
     FeePayer |-> ""]

PrepareSolanaSignParams(option, fromAddress) ==
    [ChainID |-> 0, TokenAddress |-> option.asset, TokenName |-> "", TokenVersion |-> "",
     From |-> fromAddress, To |-> option.payTo, Value |-> GetAmount(option),
     ValidAfter |-> 0, ValidBefore |-> 0, TimeoutSeconds |-> option.maxTimeoutSeconds,
     FeePayer |-> GetExtraString(option, "feePayer")]

\* x402.Authorization as a signer fills it
Authorization(params, validAfter, validBefore, nonce) ==
    [from |-> params.From, to |-> params.To, value |-> params.Value,
     validAfter |-> validAfter, validBefore |-> validBefore, nonce |-> nonce]

\* fmt.Sprintf("%d", n) and value.String()
FormatInt(n) == IF n < 0 THEN <<45>> \o NatToString(0 - n) ELSE NatToString(n)

\* what EVMSigner.Sign meets outside its arguments: the clock, the 32 bytes
\* crypto/rand hands out (or its failure), and whether hashing and signing
\* succeed
EVMWorlds ==
    [now : {1700000000}, nonce : {"0xnonce-a", "0xnonce-b"},
     entropy : BOOLEAN, hashes : BOOLEAN, signs : BOOLEAN]

\* a validBefore that always counts from the clock
validBeforeFromClock(params, now) ==
    now + (IF params.TimeoutSeconds = 0 THEN 300 ELSE params.TimeoutSeconds)

\* signer.go:214-222: the explicit ValidBefore, or the clock plus the
\* timeout, 300 seconds when there is none
validBefore(params, now) ==
    IF params.ValidBefore = 0
    THEN now + (IF params.TimeoutSeconds = 0 THEN 300 ELSE params.TimeoutSeconds)
    ELSE params.ValidBefore

\* signer.go:281-315: the domain and the message that are hashed and signed
buildTypedData(params, nonce, validBeforeAt, value) ==
    [PrimaryType |-> "TransferWithAuthorization",
     Domain |-> [Name |-> params.TokenName, Version |-> params.TokenVersion,
                 ChainId |-> params.ChainID, VerifyingContract |-> params.TokenAddress],
     Message |-> [from |-> params.From, to |-> params.To, value |-> FormatInt(value),
                  validAfter |-> FormatInt(params.ValidAfter),
                  validBefore |-> FormatInt(validBeforeAt), nonce |-> nonce]]

\* crypto.Sign over the EIP-712 hash of the typed data, and the address
\* crypto.SigToPub recovers from a signature and the typed data it is
\* checked against ("" when it was made over other data)
CryptoSign(privateKey, typedData) == [signer |-> privateKey, signed |-> typedData]
Recover(signature, typedData) ==
    IF signature.signed = typedData THEN signature.signer ELSE ""

\* "0x" + common.Bytes2Hex(signature): the hex text of the 65 bytes
HexSignature(signature) == [kind |-> "hex", doc |-> signature]

\* a nonce that is left as make([]byte, 32) gives it
GenerateNonceZero(world) == "0x00"

\* signer.go:207-212: the 32 bytes rand.Read filled, in hex
GenerateNonce(world) == world.nonce

\* EVMSigner.Sign (signer.go:205-273): (result, err)
EVMSign(privateKey, params, world) ==
    LET nonce == GenerateNonce(world)
        value == SetString(params.Value)
        validBeforeAt == validBefore(params, world.now)
        typedData == buildTypedData(params, nonce, validBeforeAt, value.val)
    IN  IF ~world.entropy
            THEN [res |-> Nil, err |-> "failed to generate nonce"]
        ELSE IF ~value.ok
            THEN [res |-> Nil, err |-> "invalid payment value"]
        ELSE IF ~world.hashes
            THEN [res |-> Nil, err |-> "failed to hash message"]
        ELSE IF ~world.signs
            THEN [res |-> Nil, err |-> "failed to sign"]
        ELSE [res |-> [Signature |-> HexSignature(CryptoSign(privateKey, typedData)),
                       Authorization |-> Authorization(params, FormatInt(params.ValidAfter),
                                                       FormatInt(validBeforeAt), nonce),
                       Nonce |-> nonce],
              err |-> ""]

\* signer_solana.go:20-27
defaultComputeUnitLimit == 200000
defaultComputeUnitPrice == 1

\* what SolanaSigner.Sign meets outside the process: whether the mint
\* account can be read and the decimals it holds, the answer of
\* GetAccountInfo for the payee's associated token account, whether a recent
\* blockhash is served, whether tx.Sign of the linked solana-go leaves the
\* slot of a signer empty when the getter has no key for it (it fails
\* otherwise), and whether the transaction serializes
SolanaLedgers ==
    [mint : BOOLEAN, decimals : {TokenDecimals},
     destATA : {"exists", "missing", "rpc-error"}, blockhash : BOOLEAN,
     recent : {[Blockhash |-> "blockhash", LastValidBlockHeight |-> 250000000]},
     partialSign : BOOLEAN, serializes : BOOLEAN]

\* solana.PublicKeyFromBase58, on the identifiers of the model: the names
\* that stand for 32-byte keys decode, a 0x address and the empty string do not
Base58Keys == {"payee", "facilitator", "solana-address", AssetDevnetUSDC}
PublicKeyFromBase58(text) == [ok |-> text \in Base58Keys, key |-> text]

\* math.MaxUint64 in decimal digits
MaxUint64Digits ==
    <<49, 56, 52, 52, 54, 55, 52, 52, 48, 55, 51, 55, 48, 57, 53, 53, 49, 54, 49, 53>>

\* a <= b for digit strings of the same length
RECURSIVE DigitsLeq(_, _)
DigitsLeq(a, b) ==
    IF Len(a) = 0 THEN TRUE
    ELSE IF Head(a) # Head(b) THEN Head(a) < Head(b)
    ELSE DigitsLeq(Tail(a), Tail(b))

RECURSIVE StripZeros(_)
StripZeros(digits) ==
    IF Len(digits) > 1 /\ Head(digits) = 48 THEN StripZeros(Tail(digits)) ELSE digits

\* strconv.ParseUint(s, 10, 64) succeeds on a non-empty string of digits
\* whose value fits 64 bits
ParseUintOk(text) ==
    /\ text # <<>>
    /\ \A i \in 1..Len(text) : IsDigit(text[i])
    /\ LET digits == StripZeros(text)
       IN  \/ Len(digits) < Len(MaxUint64Digits)
           \/ Len(digits) = Len(MaxUint64Digits) /\ DigitsLeq(digits, MaxUint64Digits)

\* solana.FindAssociatedTokenAddress
FindAssociatedTokenAddress(wallet, mint) == <<"ata", wallet, mint>>

\* an accountExists that hands the error of the RPC on
accountExistsOrError(ledger) ==
    [exists |-> ledger.destATA = "exists",
     err |-> IF ledger.destATA = "rpc-error" THEN "rpc error" ELSE ""]

\* SolanaSigner.accountExists, (exists, err): an RPC error counts as an
\* account that is not there, and err is always nil
accountExists(ledger) == [exists |-> ledger.destATA = "exists", err |-> ""]

Instruction(program, type, accounts, data) ==
    [program |-> program, type |-> type, accounts |-> accounts, data |-> data]

\* a Sign that always creates the payee's account, after the budget
SolanaInstructionsCreateAlways(params, decimals, destATAExists) ==
    << Instruction("ComputeBudget", "SetComputeUnitLimit", <<>>, <<defaultComputeUnitLimit>>),
       Instruction("AssociatedTokenAccount", "Create",
                   <<params.FeePayer, params.To, params.TokenAddress>>, <<>>),
       Instruction("ComputeBudget", "SetComputeUnitPrice", <<>>, <<defaultComputeUnitPrice>>),
       Instruction("Token", "TransferChecked",
                   <<FindAssociatedTokenAddress(params.From, params.TokenAddress),
                     params.TokenAddress,
                     FindAssociatedTokenAddress(params.To, params.TokenAddress),
                     params.From>>,
                   <<params.Value, decimals>>) >>

\* signer_solana.go:105-140: the instructions of the transaction
SolanaInstructions(params, decimals, destATAExists) ==
    (IF ~destATAExists
     THEN << Instruction("AssociatedTokenAccount", "Create",
                         <<params.FeePayer, params.To, params.TokenAddress>>, <<>>) >>
     ELSE << >>)
    \o << Instruction("ComputeBudget", "SetComputeUnitLimit", <<>>, <<defaultComputeUnitLimit>>),
          Instruction("ComputeBudget", "SetComputeUnitPrice", <<>>, <<defaultComputeUnitPrice>>) >>
    \o << Instruction("Token", "TransferChecked",
                      <<FindAssociatedTokenAddress(params.From, params.TokenAddress),
                        params.TokenAddress,
                        FindAssociatedTokenAddress(params.To, params.TokenAddress),
                        params.From>>,
                      <<params.Value, decimals>>) >>

\* tx.ToBase64 and its inverse
TransactionToBase64(tx) == [kind |-> "b64tx", doc |-> tx]
TransactionFromBase64(text) == text.doc

\* a Sign that looks the payee's account up before it validates its input
SolanaReadsLookupFirst(stage) ==
    CASE stage = "validated" -> <<"GetAccountInfo(destATA)">>
      [] stage = "decimals" -> <<"GetAccountInfo(destATA)", "GetAccountInfo(mint)">>
      [] stage = "account" -> <<"GetAccountInfo(destATA)", "GetAccountInfo(mint)">>
      [] stage = "blockhash" ->
           <<"GetAccountInfo(destATA)", "GetAccountInfo(mint)", "GetLatestBlockhash">>

\* the ledger reads SolanaSigner.Sign has issued when it has come as far as
\* the stage: none before its input is validated, then getTokenDecimals,
\* accountExists and GetLatestBlockhash
SolanaReads(stage) ==
    CASE stage = "validated" -> << >>
      [] stage = "decimals" -> <<"GetAccountInfo(mint)">>
      [] stage = "account" -> <<"GetAccountInfo(mint)", "GetAccountInfo(destATA)">>
      [] stage = "blockhash" ->
           <<"GetAccountInfo(mint)", "GetAccountInfo(destATA)", "GetLatestBlockhash">>

SolanaFailure(text, stage) == [res |-> Nil, err |-> text, reads |-> SolanaReads(stage)]

\* a tx.Sign that signs for every signer of the message
SolanaSignaturesAll(privateKey, signerKeys, ledger) ==
    [ok |-> TRUE, signatures |-> [key \in signerKeys |-> "signature"]]

\* tx.Sign with the getter of signer_solana.go:156-161: the token owner's
\* key signs; for another signer the getter returns nil
SolanaSignatures(privateKey, signerKeys, ledger) ==
    [ok |-> signerKeys \subseteq {privateKey} \/ ledger.partialSign,
     signatures |-> [key \in signerKeys |-> IF key = privateKey THEN "signature" ELSE "empty"]]

\* SolanaSigner.Sign (signer_solana.go:57-184): (result, err, ledger reads);
\* the signature of the result is the serialized transaction
SolanaSign(privateKey, params, ledger) ==
    IF ~PublicKeyFromBase58(params.To).ok
        THEN SolanaFailure("invalid recipient address", "validated")
    ELSE IF ~PublicKeyFromBase58(params.TokenAddress).ok
        THEN SolanaFailure("invalid token mint address", "validated")
    ELSE IF ~PublicKeyFromBase58(params.FeePayer).ok
        THEN SolanaFailure("invalid fee payer address", "validated")
    ELSE IF ~ParseUintOk(params.Value)
        THEN SolanaFailure("invalid amount", "validated")
    ELSE IF ~ledger.mint
        THEN SolanaFailure("failed to get token decimals", "decimals")
    ELSE IF accountExists(ledger).err # ""
        THEN SolanaFailure("failed to check destination ATA", "account")
    ELSE IF ~ledger.blockhash
        THEN SolanaFailure("failed to get recent blockhash", "blockhash")
    ELSE LET instructions == SolanaInstructions([params EXCEPT !.From = privateKey],
                                                ledger.decimals, accountExists(ledger).exists)
             signerKeys == {params.FeePayer, privateKey}
             signed == SolanaSignatures(privateKey, signerKeys, ledger)
             tx == [instructions |-> instructions,
                    recentBlockhash |-> ledger.recent.Blockhash,
                    feePayer |-> params.FeePayer,
                    signatures |-> signed.signatures]
         IN  IF ~signed.ok
                 THEN SolanaFailure("failed to sign transaction", "blockhash")
             ELSE IF ~ledger.serializes
                 THEN SolanaFailure("failed to serialize transaction", "blockhash")
             ELSE [res |-> [Signature |-> TransactionToBase64(tx),
                            Authorization |->
                                Authorization(params, <<48>>,
                                              FormatInt(ledger.recent.LastValidBlockHeight),
                                              ledger.recent.Blockhash),
                            Nonce |-> ledger.recent.Blockhash],
                   err |-> "",
                   reads |-> SolanaReads("blockhash")]

\* test.go:304-315
Signing ==
    /\ outcome = "Running" /\ pc = "Signing"
    /\ signerCalls' = signerCalls + 1
    /\ \E world \in EVMWorlds, ledger \in SolanaLedgers :
          LET fromAddress == IF isSolana THEN "solana-address" ELSE "evm-address"
              params == IF isSolana
                        THEN PrepareSolanaSignParams(paymentOption, fromAddress)
                        ELSE PrepareSignParams(paymentOption, fromAddress, chainID)
              signed == IF keyLoaded = "solana" THEN SolanaSign(fromAddress, params, ledger)
                        ELSE EVMSign(fromAddress, params, world)
          IN  /\ signParams' = params
              /\ IF signed.err # ""
                 THEN /\ Fail("failed to sign authorization")
                      /\ UNCHANGED signResult
                 ELSE /\ signResult' = signed.res
                      /\ Proceed
    /\ UNCHANGED <<fnVars, batchVars, flagVars, handlerVars, signatureSent, headers, reqResult, parseResult,
                   paymentOption, isSolana, chainID, tokenKnown, keyLoaded, headerName,
                   headerValue, retryResult, result, sent, parseCalls>>

\* test.go:322-328
PayloadResource ==
    IF parseResult.ProtocolVersion = ProtocolV1 THEN [URL |-> url] ELSE parseResult.Resource

\* test.go:330-351: (headerName, headerValue)
PaymentHeader ==
    IF isSolana
    THEN [headerName |-> HeaderPaymentSignature,
          headerValue |-> EncodePayload(
              BuildPayloadV2Solana(PayloadResource, paymentOption, signResult.Signature))]
    ELSE BuildAndEncodePayload(parseResult.ProtocolVersion, PayloadResource, paymentOption,
                               signResult.Signature, signResult.Authorization)

Building ==
    /\ outcome = "Running" /\ pc = "Building"
    /\ headerName' = PaymentHeader.headerName
    /\ headerValue' = PaymentHeader.headerValue
    /\ Proceed
    /\ UNCHANGED <<fnVars, batchVars, flagVars, handlerVars, signatureSent, headers, reqResult, parseResult,
                   paymentOption, isSolana, chainID, tokenKnown, keyLoaded, signParams, signResult,
                   retryResult, result, sent, parseCalls, signerCalls>>

\* test.go:358-359
Latching ==
    /\ outcome = "Running" /\ pc = "Latching"
    /\ signatureSent' = TRUE
    /\ Proceed
    /\ UNCHANGED <<fnVars, batchVars, flagVars, handlerVars, headers, reqResult, parseResult,
                   paymentOption, isSolana, chainID, tokenKnown, keyLoaded, signParams, signResult,
                   headerName, headerValue, retryResult, result, sent, parseCalls,
                   signerCalls>>

\* a fresh map with the one entry, in place of an assignment to the map
MapSetFresh(m, name, value) == [k \in {name} |-> value]

\* headers[name] = value on a Go map
MapSet(m, name, value) ==
    [k \in DOMAIN m \cup {name} |-> IF k = name THEN value ELSE m[k]]

\* test.go:361-362
Attaching ==
    /\ outcome = "Running" /\ pc = "Attaching"
    /\ headers' = MapSet(headers, headerName, headerValue)
    /\ Proceed
    /\ UNCHANGED <<fnVars, batchVars, flagVars, handlerVars, signatureSent, reqResult, parseResult,
                   paymentOption, isSolana, chainID, tokenKnown, keyLoaded, signParams, signResult,
                   headerName, headerValue, retryResult, result, sent, parseCalls,
                   signerCalls>>

\* the requests the call of test.go:364 may issue
RetryRequest == Request(requestMethod, url, headers, RequestBody)

\* test.go:364-368
Retrying ==
    /\ outcome = "Running" /\ pc = "Retrying"
    /\ \E req \in RetryRequest : sent' = Append(sent, req)
    /\ \/ /\ Fail("retry request failed")
          /\ UNCHANGED retryResult
       \/ \E resp \in RetryResponses :
             /\ retryResult' = resp
             /\ Proceed
    /\ UNCHANGED <<fnVars, batchVars, flagVars, handlerVars, signatureSent, headers, reqResult, parseResult,
                   paymentOption, isSolana, chainID, tokenKnown, keyLoaded, signParams, signResult,
                   headerName, headerValue, result, parseCalls, signerCalls>>

\* test.go:370-384: the settlement record, best effort
WithPaymentResponse(res, paymentResp, network) ==
    IF paymentResp = Nil THEN res
    ELSE IF paymentResp.transaction # ""
         THEN [res EXCEPT !.PaymentResponse = paymentResp,
                          !.Transaction = paymentResp.transaction,
                          !.TransactionURL = GetExplorerURL(network, paymentResp.transaction)]
         ELSE [res EXCEPT !.PaymentResponse = paymentResp]

\* a check that takes only a renewed 402 for a rejection
RejectedOn402(status) == status = StatusPaymentRequired

\* test.go:386-397: a retry answered with anything but 200 is a rejected payment
Rejected(status) == status # StatusOK

\* a check that lets the error of ParsePaymentResponse count
VerifyOutcomeStrict(status, parseErr) ==
    IF Rejected(status) \/ parseErr # "" THEN "Rejected" ELSE "Success"

\* test.go:377-399: the status alone decides; the error of ParsePaymentResponse
\* is dropped
VerifyOutcome(status, parseErr) == IF Rejected(status) THEN "Rejected" ELSE "Success"

\* test.go:370-418
Verifying ==
    /\ outcome = "Running" /\ pc = "Verifying"
    /\ LET status == retryResult.StatusCode
           parsed == ParsePaymentResponse(retryResult, parseResult.ProtocolVersion)
           paymentResp == parsed.pr
           seen == WithPaymentResponse([result EXCEPT !.Status = status], paymentResp,
                                       paymentOption.network)
       IN  IF VerifyOutcome(status, parsed.err) = "Rejected"
           THEN /\ result' = [seen EXCEPT !.ExitCode = 5, !.Error = "Payment failed"]
                /\ Reject("Payment failed")
           ELSE /\ result' = seen
                /\ End("Success")
    /\ UNCHANGED <<fnVars, batchVars, flagVars, handlerVars, signatureSent, headers, reqResult, parseResult,
                   paymentOption, isSolana, chainID, tokenKnown, keyLoaded, signParams, signResult,
                   headerName, headerValue, retryResult, sent, parseCalls, signerCalls>>

\* ------------------------------------------------------------------------
\* The interrupt handler (test.go:95-105), a goroutine of its own
\* ------------------------------------------------------------------------

mainVars == <<pc, signatureSent, headers, reqResult, parseResult, paymentOption,
              isSolana, chainID, tokenKnown, keyLoaded, signParams, signResult, headerName,
              headerValue, retryResult, result, failure, sent, parseCalls, signerCalls>>

\* test.go:96: the signal arrives
HandlerWake ==
    /\ outcome = "Running" /\ hpc = "waiting"
    /\ hpc' = "woken"
    /\ sigAt' = IF signResult # Nil THEN "signed" ELSE "unsigned"
    /\ UNCHANGED <<fnVars, batchVars, flagVars, mainVars, outcome, hread, report>>

\* what a read of the latch may return: it is written by the main goroutine
\* with no synchronisation, so the handler may still see the initial value
LatchReads == {signatureSent, FALSE}

\* test.go:98: the handler reads the latch
HandlerRead ==
    /\ outcome = "Running" /\ hpc = "woken"
    /\ hread' \in LatchReads
    /\ hpc' = "read"
    /\ UNCHANGED <<fnVars, batchVars, flagVars, mainVars, outcome, report, sigAt>>

\* the message for the value read (test.go:98-103)
Message(latch) == IF latch THEN "warn" ELSE "none"

\* test.go:99-102: it prints the message for the value read
HandlerReport ==
    /\ outcome = "Running" /\ hpc = "read"
    /\ report' = Message(hread)
    /\ hpc' = "reported"
    /\ UNCHANGED <<fnVars, batchVars, flagVars, mainVars, outcome, hread, sigAt>>

\* test.go:104: os.Exit(1)
HandlerExit ==
    /\ outcome = "Running" /\ hpc = "reported"
    /\ outcome' = "Interrupted"
    /\ hpc' = "exited"
    /\ UNCHANGED <<fnVars, batchVars, flagVars, mainVars, hread, report, sigAt>>

Next ==
    \/ Requesting
    \/ Negotiating
    \/ Selecting
    \/ LoadingKey
    \/ Confirming
    \/ Signing
    \/ Building
    \/ Latching
    \/ Attaching
    \/ Retrying
    \/ Verifying
    \/ HandlerWake
    \/ HandlerRead
    \/ HandlerReport
    \/ HandlerExit

Spec == Init /\ [][Next]_vars

\* ------------------------------------------------------------------------
\* The functions of the packages, each called once on arguments of its own
\* ------------------------------------------------------------------------

\* nothing of runTest moves while a function is looked at by itself
runTestVars == <<flagVars, mainVars, handlerVars, outcome>>

\* the function is called and returns
Call(name, arguments, returned) ==
    /\ fn = ""
    /\ fn' = name
    /\ args' = arguments
    /\ ret' = returned
    /\ UNCHANGED <<runTestVars, batchVars>>

\* a requirement or nil
OptionalRequirements == Requirements \cup {Nil}

CallSelectPaymentOption ==
    \E solanaOpt \in OptionalRequirements, evmOpt \in OptionalRequirements,
       hasSolanaKeypair \in BOOLEAN :
        Call("selectPaymentOption",
             [solanaOpt |-> solanaOpt, evmOpt |-> evmOpt, hasSolanaKeypair |-> hasSolanaKeypair],
             selectPaymentOption(solanaOpt, evmOpt, hasSolanaKeypair))

\* the 402 responses handed to ParsePaymentRequired: those of runTest, and
\* header and body varied independently of each other
ParseResponses ==
    InitialResponses
    \cup {Response(StatusPaymentRequired,
                   HeaderPaymentRequired :> B64Encode(JSONText(PaymentRequiredDoc(ProtocolV2, a))),
                   b) : a \in SeqsUpTo(Requirements, 1),
                        b \in {EmptyText, Garbage, Unreadable,
                               JSONText(PaymentRequiredDoc(ProtocolV1, <<>>))}}
    \cup {Response(StatusPaymentRequired, HeaderPaymentRequired :> h, DecoyBody) :
            h \in {EmptyText, Garbage, B64Garbage, JSONText(PaymentRequiredDoc(ProtocolV2, <<>>))}}
    \cup {Response(StatusPaymentRequired, NoHeader, Unreadable)}

CallParsePaymentRequired ==
    \E resp \in ParseResponses :
        Call("ParsePaymentRequired", [resp |-> resp], ParsePaymentRequired(resp))

\* responses with either, both or none of the settlement headers
SettlementTexts ==
    {EmptyText, Garbage, B64Garbage, B64Encode(JSONText(SettlementDoc("0xtx")))}

SettledResponses ==
    {Response(StatusOK, h, JSONText(Nil)) :
        h \in UNION {[names -> SettlementTexts] :
                       names \in SUBSET {HeaderPaymentResponse, HeaderXPaymentResponse}}}

CallParsePaymentResponse ==
    \E resp \in SettledResponses, protocolVersion \in {0, ProtocolV1, ProtocolV2} :
        Call("ParsePaymentResponse", [resp |-> resp, protocolVersion |-> protocolVersion],
             ParsePaymentResponse(resp, protocolVersion))

\* ParsePaymentRequired on a response, then BuildAndEncodePayload on one of
\* the parsed requirements; the call returns the header name and value
CallBuildAndEncodePayload ==
    \E resp \in ParseResponses, protocolVersion \in {ProtocolV1, ProtocolV2} :
        LET parsed == ParsePaymentRequired(resp)
        IN  /\ parsed.err = ""
            /\ \E i \in 1..Len(parsed.result.PaymentRequired.accepts) :
                 LET option == parsed.result.PaymentRequired.accepts[i]
                     auth == [from |-> "0xfrom", to |-> option.payTo, value |-> GetAmount(option)]
                     signature == HexSignature(CryptoSign("0xfrom", auth))
                 IN  Call("BuildAndEncodePayload",
                          [resp |-> resp, parsed |-> parsed.result, option |-> option,
                           protocolVersion |-> protocolVersion],
                          BuildAndEncodePayload(protocolVersion, [URL |-> url], option,
                                                signature, auth))

\* requirements with each amount field unset, or set to either amount
AmountFields == {<<>>, Amount10000, Amount2000000}

CallGetAmount ==
    \E amount \in AmountFields, maxAmountRequired \in AmountFields,
       network \in {"eip155:8453", SolanaDevnet} :
        LET p == Requirement(network, AssetUnknown, amount, maxAmountRequired)
        IN  Call("GetAmount", [p |-> p], [amount |-> GetAmount(p)])

\* 2^64 and -1 in decimal digits
AmountOverflow ==
    <<49, 56, 52, 52, 54, 55, 52, 52, 48, 55, 51, 55, 48, 57, 53, 53, 49, 54, 49, 54>>
AmountNegative == <<45, 49>>

\* the requirements handed to the Solana signer: the payee, the mint and the
\* fee payer well-formed or not, the fee payer the facilitator or the token
\* owner, the amount a uint64 or not
SolanaOptions ==
    {[Requirement(SolanaDevnet, asset, amount, <<>>)
        EXCEPT !.payTo = payTo, !.extra = [feePayer |-> feePayer]] :
        asset \in {AssetDevnetUSDC, AssetUnknown},
        amount \in {Amount10000, <<>>, AmountOverflow, AmountNegative},
        payTo \in {"payee", "0xpayee"},
        feePayer \in {"facilitator", "solana-address", ""}}

CallSolanaSign ==
    \E option \in SolanaOptions, ledger \in SolanaLedgers :
        LET params == PrepareSolanaSignParams(option, "solana-address")
        IN  Call("SolanaSigner.Sign",
                 [privateKey |-> "solana-address", params |-> params, ledger |-> ledger],
                 SolanaSign("solana-address", params, ledger))

\* the parameters handed to the EVM signer: amounts that are and are not
\* numbers ("007" among them), validity bounds set and unset
EVMValues == {Amount10000, <<48, 48, 55>>, <<>>, HumanABC, Human005, AmountNegative}

EVMParams ==
    {[PrepareSignParams(Requirement("eip155:8453", AssetBaseUSDC, value, <<>>),
                        "evm-address", 8453)
        EXCEPT !.ValidAfter = validAfter, !.ValidBefore = validBeforeSet,
               !.TimeoutSeconds = timeoutSeconds] :
        value \in EVMValues, validAfter \in {0, 100},
        validBeforeSet \in {0, 1800000000}, timeoutSeconds \in {0, 60, 300}}

CallEVMSign ==
    \E params \in EVMParams, world \in EVMWorlds :
        Call("EVMSigner.Sign",
             [privateKey |-> "evm-address", params |-> params, world |-> world],
             EVMSign("evm-address", params, world))

\* two calls of Sign with the same key and parameters; crypto/rand is taken
\* not to hand out the same 32 bytes twice
CallEVMSignTwice ==
    \E params \in {p \in EVMParams : p.Value = Amount10000},
       first \in EVMWorlds, second \in EVMWorlds :
        /\ first.nonce # second.nonce
        /\ Call("EVMSigner.Sign twice",
                [privateKey |-> "evm-address", params |-> params,
                 first |-> first, second |-> second],
                [first |-> EVMSign("evm-address", params, first),
                 second |-> EVMSign("evm-address", params, second)])

\* schemes a server may name; only "exact" is one the signers implement
Schemes == {"exact", "upto"}

\* the requirements of the servers, under each scheme
SchemedRequirements == {[r EXCEPT !.scheme = scheme] : r \in Requirements, scheme \in Schemes}

\* runTest's choice of the option to pay: both searches, then the selector
CallFindOption ==
    \E accepts \in SeqsUpTo(SchemedRequirements, MaxAccepts), hasSolanaKeypair \in BOOLEAN :
        LET pr == PaymentRequiredDoc(ProtocolV2, accepts)
        IN  Call("FindOption",
                 [pr |-> pr, hasSolanaKeypair |-> hasSolanaKeypair],
                 selectPaymentOption(FindSolanaOption(pr), FindEVMOption(pr), hasSolanaKeypair))

\* ---- internal/a2a: discovery of an agent card

DiscoveryPaths ==
    <<"/.well-known/agent.json", "/.well-known/agent-card.json", "/.well-known/agents.json">>

\* the --card-url values: none, one without and one with its leading slash
CustomPaths == {"", "custom/agent.json", "/custom/agent.json"}

\* a path list that always starts with the well-known paths
buildPathsAppended(customPath) ==
    IF customPath = "" THEN DiscoveryPaths ELSE Append(DiscoveryPaths, customPath)

buildPaths(customPath) ==
    IF customPath = "" THEN DiscoveryPaths
    ELSE IF customPath \in {"/custom/agent.json"} THEN <<customPath>>
    ELSE <<"/" \o customPath>>

\* the URLs given to Discover: with a path, without a scheme, without a host
AgentURLs == {"https://agent.example/v1/task", "agent.example", ""}

\* (base, err)
ExtractBaseURL(rawURL) ==
    IF rawURL = "" THEN [base |-> "", err |-> "invalid URL: missing host"]
    ELSE [base |-> "https://agent.example", err |-> ""]

\* what the server does with the request for one path
CardAnswers ==
    {"network error", "404", "401", "403", "500", "card", "invalid JSON", "no name", "no version"}

AgentCard(name, version) == [Name |-> name, Version |-> version]

\* "" when the required fields are there
validateAgentCard(card) ==
    IF card.Name = "" THEN "invalid agent card: missing required field 'name'"
    ELSE IF card.Version = "" THEN "invalid agent card: missing required field 'version'"
    ELSE ""

\* (card, status, err) for the answer the server gives
fetchAgentCard(answer) ==
    IF answer = "network error" THEN [card |-> Nil, status |-> 0, err |-> "connection refused"]
    ELSE IF answer = "404" THEN [card |-> Nil, status |-> 404, err |-> ""]
    ELSE IF answer = "401" THEN [card |-> Nil, status |-> 401, err |-> ""]
    ELSE IF answer = "403" THEN [card |-> Nil, status |-> 403, err |-> ""]
    ELSE IF answer = "500" THEN [card |-> Nil, status |-> 500, err |-> "unexpected status: 500"]
    ELSE IF answer = "invalid JSON" THEN [card |-> Nil, status |-> 200, err |-> "invalid JSON"]
    ELSE LET card == AgentCard(IF answer = "no name" THEN "" ELSE "Agent",
                               IF answer = "no version" THEN "" ELSE "1.0.0")
         IN  IF validateAgentCard(card) # ""
             THEN [card |-> Nil, status |-> 200, err |-> validateAgentCard(card)]
             ELSE [card |-> card, status |-> 200, err |-> ""]

\* an evaluation that lets an invalid card pass
evaluateAttemptLenient(status, err, customPath) ==
    IF status = 0 /\ err # "" /\ customPath # "" THEN [exitCode |-> 3, errMsg |-> err]
    ELSE [exitCode |-> 0, errMsg |-> ""]

\* (exitCode, errMsg)
evaluateAttempt(status, err, customPath) ==
    IF status = 0 /\ err # "" /\ customPath # "" THEN [exitCode |-> 3, errMsg |-> err]
    ELSE IF status = 200 /\ err # "" THEN [exitCode |-> 4, errMsg |-> err]
    ELSE [exitCode |-> 0, errMsg |-> ""]

allNetworkErrors(attempts) ==
    /\ Len(attempts) > 0
    /\ \A k \in 1..Len(attempts) : attempts[k].Status = 0

\* the loop of Discover from the k-th path on; answers[k] is what the server
\* does with the request for the k-th path
RECURSIVE DiscoverLoop(_, _, _, _, _)
DiscoverLoop(res, paths, k, answers, customPath) ==
    IF k > Len(paths)
    THEN IF allNetworkErrors(res.TriedPaths)
         THEN [res EXCEPT !.ExitCode = 3,
                          !.Error = IF res.Error = "" THEN res.TriedPaths[1].Error ELSE @]
         ELSE res
    ELSE LET fetched == fetchAgentCard(answers[k])
             attempt == [Path |-> paths[k], Status |-> fetched.status, Error |-> fetched.err]
             tried == [res EXCEPT !.TriedPaths = Append(@, attempt)]
             evaluated == evaluateAttempt(fetched.status, fetched.err, customPath)
         IN  IF fetched.card # Nil
             THEN [tried EXCEPT !.Found = TRUE, !.DiscoveryPath = paths[k], !.Card = fetched.card]
             ELSE IF evaluated.exitCode > 0
             THEN [tried EXCEPT !.Error = evaluated.errMsg, !.ExitCode = evaluated.exitCode]
             ELSE DiscoverLoop(
                      IF fetched.status \in {401, 403}
                      THEN [tried EXCEPT !.Error = "agent card requires authentication"]
                      ELSE tried,
                      paths, k + 1, answers, customPath)

Discover(rawURL, customPath, answers) ==
    LET res == [URL |-> rawURL, BaseURL |-> "", TriedPaths |-> <<>>, Found |-> FALSE,
                DiscoveryPath |-> "", Card |-> Nil, Error |-> "", ExitCode |-> 0]
        extracted == ExtractBaseURL(rawURL)
    IN  IF extracted.err # ""
        THEN [res EXCEPT !.Error = extracted.err, !.ExitCode = 4]
        ELSE DiscoverLoop([res EXCEPT !.BaseURL = extracted.base], buildPaths(customPath), 1,
                          answers, customPath)

CallDiscover ==
    \E rawURL \in AgentURLs, customPath \in CustomPaths :
        \E answers \in [1..Len(buildPaths(customPath)) -> CardAnswers] :
            Call("Discover", [rawURL |-> rawURL, customPath |-> customPath, answers |-> answers],
                 Discover(rawURL, customPath, answers))

FnInit ==
    /\ Init
    /\ solanaKeypairPath = ""
    /\ ~dryRun
    /\ ~jsonOutput
    /\ ~skipPaymentConfirmation
    /\ maxAmount = <<>>
    /\ requestMethod = "GET"

FnNext ==
    \/ CallSelectPaymentOption
    \/ CallParsePaymentRequired
    \/ CallParsePaymentResponse
    \/ CallBuildAndEncodePayload
    \/ CallGetAmount
    \/ CallSolanaSign
    \/ CallEVMSign
    \/ CallEVMSignTwice
    \/ CallFindOption
    \/ CallDiscover

FnSpec == FnInit /\ [][FnNext]_vars

\* ------------------------------------------------------------------------
\* internal/commands: runBatchChecks, its dispatcher loop and its workers
\* ------------------------------------------------------------------------

MaxEntries == 3
MaxParallel == 3

\* the entries of a batch file: a URL without its scheme and without a
\* method, a URL with its scheme, and one that has no host
BatchEntries ==
    { [URL |-> "b.example", Method |-> ""],
      [URL |-> "https://a.example", Method |-> "GET"],
      [URL |-> "", Method |-> "get"] }

\* strings.HasPrefix(raw, "http://") || strings.HasPrefix(raw, "https://")
HasHTTPPrefix(raw) == raw \in {"https://a.example", "https://b.example", "https://"}

normalizeURL(raw) ==
    LET full == IF HasHTTPPrefix(raw) THEN raw ELSE "https://" \o raw
    IN  IF full = "https://" THEN [url |-> "", err |-> "invalid URL: " \o full]
        ELSE [url |-> full, err |-> ""]

\* strings.ToUpper on the methods of the batch files
MethodToUpper(method) == IF method = "get" THEN "GET" ELSE method

\* what the endpoints make of a request: one asks for payment, one answers
\* 200; an endpoint that cannot be reached ends as the URL without a host
\* does, with exit code 3 (the other failures, exit codes 1 and 4, are
\* treated by the batch as this one is)
EndpointAnswers == [x \in {"https://b.example"} |-> "402"] @@ [x \in {"https://a.example"} |-> "200"]

\* the zero value of output.HealthResult
ZeroHealthResult == [URL |-> "", Method |-> "", ExitCode |-> 0, Checks |-> <<>>]

\* checkHealth: exit code and checks follow from the endpoint's answer
checkHealth(endpoint, method, answer) ==
    [URL |-> endpoint, Method |-> method,
     ExitCode |-> IF answer = "unreachable" THEN 3 ELSE 0,
     Checks |-> IF answer = "unreachable" THEN <<"fail">>
                ELSE IF answer = "200" THEN <<"pass", "warn">>
                ELSE <<"pass", "pass">>]

\* the results CheckHealthForBatchWithMethod can return for an entry
CheckHealthForBatchWithMethod(entry) ==
    LET normalized == normalizeURL(entry.URL)
        method == IF entry.Method = "" THEN "GET" ELSE entry.Method
    IN  IF normalized.err # ""
        THEN {[URL |-> entry.URL, Method |-> "", ExitCode |-> 3, Checks |-> <<"fail">>]}
        ELSE {checkHealth(normalized.url, MethodToUpper(method), EndpointAnswers[normalized.url])}

\* a send on a buffered channel goes through while the buffer has room
CanSendAlways(tokens, capacity) == TRUE

CanSend(tokens, capacity) == tokens < capacity

\* wg.Wait returns
WaitReturnsAtOnce(counter) == TRUE

WaitReturns(counter) == counter = 0

Entries == args.entries

\* a receive that takes nothing out of the channel
ReceiveNothing(tokens) == tokens

\* <-ch on a buffered channel holding tokens
Receive(tokens) == tokens - 1

\* close(ch): closing a closed channel panics
Close(ch) == IF ch = "open" THEN "closed" ELSE "panic: close of closed channel"

\* a stop condition that does not look at the stopped flag
ShouldStopUnguarded(failFast, checked, isStopped) == failFast /\ checked.ExitCode # 0

\* failFast && result.ExitCode != 0 && !stopped
ShouldStop(failFast, checked, isStopped) == failFast /\ checked.ExitCode # 0 /\ ~isStopped

\* runBatchChecks is called: the results slice is made
CallRunBatchChecks ==
    /\ fn = ""
    /\ \E entries \in SeqsUpTo(BatchEntries, MaxEntries), parallel \in 0..MaxParallel,
          failFast \in BOOLEAN :
          /\ fn' = "runBatchChecks"
          /\ args' = [entries |-> entries, parallel |-> parallel, failFast |-> failFast]
          /\ results' = [k \in 1..Len(entries) |-> ZeroHealthResult]
          /\ workers' = [k \in 1..Len(entries) |-> [pc |-> "unborn", result |-> ZeroHealthResult]]
          /\ checks' = [k \in 1..Len(entries) |-> <<>>]
          /\ writes' = [k \in 1..Len(entries) |-> 0]
          /\ bpc' = IF parallel <= 1 THEN "sequential" ELSE "select"
    /\ iLoop' = 1
    /\ ret' = <<>>
    /\ UNCHANGED <<runTestVars, summary, semaphore, wg, mu, stopped, stopChan>>

\* one turn of the sequential loop
SequentialCheck ==
    /\ bpc = "sequential"
    /\ iLoop <= Len(Entries)
    /\ \E checked \in CheckHealthForBatchWithMethod(Entries[iLoop]) :
          /\ results' = [results EXCEPT ![iLoop] = checked]
          /\ checks' = [checks EXCEPT ![iLoop] = Append(@, checked)]
          /\ writes' = [writes EXCEPT ![iLoop] = @ + 1]
          /\ IF args.failFast /\ checked.ExitCode # 0
             THEN /\ bpc' = "returned"
                  /\ ret' = results'
                  /\ iLoop' = iLoop
             ELSE /\ iLoop' = iLoop + 1
                  /\ UNCHANGED <<bpc, ret>>
    /\ UNCHANGED <<runTestVars, summary, fn, args, semaphore, wg, mu, stopped, stopChan, workers>>

\* the sequential loop is over
SequentialReturn ==
    /\ bpc = "sequential"
    /\ iLoop > Len(Entries)
    /\ bpc' = "returned"
    /\ ret' = results
    /\ UNCHANGED <<runTestVars, summary, fn, args, iLoop, results, semaphore, wg, mu, stopped, stopChan,
                   workers, checks, writes>>

\* the head of the dispatcher loop: the select on stopChan
DispatchSelect ==
    /\ bpc = "select"
    /\ IF iLoop > Len(Entries)
       THEN bpc' = "wait" /\ UNCHANGED ret
       ELSE IF stopChan = "closed"
       THEN bpc' = "returned" /\ ret' = SubSeq(results, 1, iLoop - 1)
       ELSE bpc' = "add" /\ UNCHANGED ret
    /\ UNCHANGED <<runTestVars, summary, fn, args, iLoop, results, semaphore, wg, mu, stopped, stopChan,
                   workers, checks, writes>>

\* wg.Add(1)
DispatchAdd ==
    /\ bpc = "add"
    /\ wg' = wg + 1
    /\ bpc' = "acquire"
    /\ UNCHANGED <<runTestVars, summary, fnVars, iLoop, results, semaphore, mu, stopped, stopChan,
                   workers, checks, writes>>

\* semaphore <- struct{}{}
DispatchAcquire ==
    /\ bpc = "acquire"
    /\ CanSend(semaphore, args.parallel)
    /\ semaphore' = semaphore + 1
    /\ bpc' = "go"
    /\ UNCHANGED <<runTestVars, summary, fnVars, iLoop, results, wg, mu, stopped, stopChan,
                   workers, checks, writes>>

\* the go statement, and the end of the loop's turn (time.Sleep changes nothing)
DispatchGo ==
    /\ bpc = "go"
    /\ workers' = [workers EXCEPT ![iLoop].pc = "check"]
    /\ iLoop' = iLoop + 1
    /\ bpc' = "select"
    /\ UNCHANGED <<runTestVars, summary, fnVars, results, semaphore, wg, mu, stopped, stopChan,
                   checks, writes>>

\* wg.Wait() and the return of all results
DispatchWait ==
    /\ bpc = "wait"
    /\ WaitReturns(wg)
    /\ bpc' = "returned"
    /\ ret' = results
    /\ UNCHANGED <<runTestVars, summary, fn, args, iLoop, results, semaphore, wg, mu, stopped, stopChan,
                   workers, checks, writes>>

\* a worker's health check returns
WorkerCheck(idx) ==
    /\ workers[idx].pc = "check"
    /\ \E checked \in CheckHealthForBatchWithMethod(Entries[idx]) :
          /\ workers' = [workers EXCEPT ![idx] = [pc |-> "lock", result |-> checked]]
          /\ checks' = [checks EXCEPT ![idx] = Append(@, checked)]
    /\ UNCHANGED <<runTestVars, summary, fnVars, bpc, iLoop, results, semaphore, wg, mu, stopped, stopChan,
                   writes>>

\* mu.Lock() goes through, then results[idx] = *result and the fail-fast
\* stop, with the mutex held
WorkerWrite(idx) ==
    /\ workers[idx].pc = "lock"
    /\ ~mu
    /\ mu' = TRUE
    /\ results' = [results EXCEPT ![idx] = workers[idx].result]
    /\ writes' = [writes EXCEPT ![idx] = @ + 1]
    /\ IF ShouldStop(args.failFast, workers[idx].result, stopped)
       THEN stopped' = TRUE /\ stopChan' = Close(stopChan)
       ELSE UNCHANGED <<stopped, stopChan>>
    /\ workers' = [workers EXCEPT ![idx].pc = "unlock"]
    /\ UNCHANGED <<runTestVars, summary, fnVars, bpc, iLoop, semaphore, wg, checks>>

\* mu.Unlock()
WorkerUnlock(idx) ==
    /\ workers[idx].pc = "unlock"
    /\ mu' = FALSE
    /\ workers' = [workers EXCEPT ![idx].pc = "release"]
    /\ UNCHANGED <<runTestVars, summary, fnVars, bpc, iLoop, results, semaphore, wg, stopped, stopChan,
                   checks, writes>>

\* the deferred <-semaphore
WorkerRelease(idx) ==
    /\ workers[idx].pc = "release"
    /\ semaphore' = Receive(semaphore)
    /\ workers' = [workers EXCEPT ![idx].pc = "done-wg"]
    /\ UNCHANGED <<runTestVars, summary, fnVars, bpc, iLoop, results, wg, mu, stopped, stopChan,
                   checks, writes>>

\* the deferred wg.Done()
WorkerDone(idx) ==
    /\ workers[idx].pc = "done-wg"
    /\ wg' = wg - 1
    /\ workers' = [workers EXCEPT ![idx].pc = "done"]
    /\ UNCHANGED <<runTestVars, summary, fnVars, bpc, iLoop, results, semaphore, mu, stopped, stopChan,
                   checks, writes>>

\* runBatchHealth's loop over the returned slice: one element is read (from
\* the array the workers write to) and counted
CountResult ==
    /\ fn = "runBatchChecks"
    /\ bpc = "returned"
    /\ Len(Entries) > 0
    /\ summary.next <= Len(ret)
    /\ LET r == results[summary.next]
           hasWarn == \E c \in DOMAIN r.Checks : r.Checks[c] = "warn"
       IN  summary' = [summary EXCEPT
                          !.next = @ + 1,
                          !.failed = IF r.ExitCode # 0 THEN @ + 1 ELSE @,
                          !.passedWarn = IF r.ExitCode = 0 /\ hasWarn THEN @ + 1 ELSE @,
                          !.passed = IF r.ExitCode = 0 /\ ~hasWarn THEN @ + 1 ELSE @]
    /\ UNCHANGED <<runTestVars, fnVars, bpc, iLoop, results, semaphore, wg, mu, stopped, stopChan,
                   workers, checks, writes>>

\* the summary is printed and runBatchHealth returns
PrintBatchHealthResult ==
    /\ fn = "runBatchChecks"
    /\ bpc = "returned"
    /\ Len(Entries) > 0
    /\ summary.next > Len(ret)
    /\ ~summary.printed
    /\ summary' = [summary EXCEPT
                      !.printed = TRUE,
                      !.err = IF summary.failed > 0 THEN "endpoint(s) failed" ELSE ""]
    /\ UNCHANGED <<runTestVars, fnVars, bpc, iLoop, results, semaphore, wg, mu, stopped, stopChan,
                   workers, checks, writes>>

BatchInit ==
    /\ FnInit
    /\ requestData = ""

BatchNext ==
    \/ CallRunBatchChecks
    \/ SequentialCheck
    \/ SequentialReturn
    \/ DispatchSelect
    \/ DispatchAdd
    \/ DispatchAcquire
    \/ DispatchGo
    \/ DispatchWait
    \/ CountResult
    \/ PrintBatchHealthResult
    \/ \E idx \in DOMAIN workers : WorkerCheck(idx)
    \/ \E idx \in DOMAIN workers : WorkerWrite(idx)
    \/ \E idx \in DOMAIN workers : WorkerUnlock(idx)
    \/ \E idx \in DOMAIN workers : WorkerRelease(idx)
    \/ \E idx \in DOMAIN workers : WorkerDone(idx)

BatchSpec == BatchInit /\ [][BatchNext]_vars

\* the goroutine that runs runBatchChecks
Dispatcher ==
    \/ SequentialCheck
    \/ SequentialReturn
    \/ DispatchSelect
    \/ DispatchAdd
    \/ DispatchAcquire
    \/ DispatchGo
    \/ DispatchWait

\* the goroutine started for entry idx
Worker(idx) ==
    /\ idx \in DOMAIN workers
    /\ \/ WorkerCheck(idx)
       \/ WorkerWrite(idx)
       \/ WorkerUnlock(idx)
       \/ WorkerRelease(idx)
       \/ WorkerDone(idx)

\* the scheduler runs every goroutine that can take a step, and every health
\* check finishes (the HTTP client has a timeout)
BatchFairness ==
    /\ WF_vars(Dispatcher)
    /\ \A idx \in 1..MaxEntries : WF_vars(Worker(idx))

BatchLiveSpec == BatchInit /\ [][BatchNext]_vars /\ BatchFairness

\* ------------------------------------------------------------------------
\* Properties of runTest
\* ------------------------------------------------------------------------

\* the retry request has been issued
RetryIssued == Len(sent) >= 2

\* the request carries the payment header that was built
SignatureBearing(req) ==
    /\ headerName # ""
    /\ headerName \in DOMAIN req.headers
    /\ req.headers[headerName] = headerValue

\* the retry request has been issued and carries the signature
SignatureSentOut == RetryIssued /\ SignatureBearing(sent[2])

\* the payment header is in the headers of the request
PaymentAttached ==
    /\ headerName # ""
    /\ headerName \in DOMAIN headers
    /\ headers[headerName] = headerValue

\* the amount of the option exceeds the cap when the cap is read with the
\* given number of decimals
ExceedsWith(option, decimals) ==
    LET cap == ParseHumanAmount(maxAmount, decimals)
    IN  /\ cap.err = ""
        /\ SetString(GetAmount(option)).ok
        /\ CompareAmounts(GetAmount(option), cap.raw) > 0

\* the amount exceeds the cap: with the decimals of the token when the registry
\* has it, and else with every number of decimals from 0 to those of the
\* registry's tokens
ExceedsCap(option) ==
    /\ maxAmount # <<>>
    /\ IF GetTokenInfo(option.network, option.asset) # Nil
       THEN ExceedsWith(option, GetTokenInfo(option.network, option.asset).Decimals)
       ELSE \A d \in 0..TokenDecimals : ExceedsWith(option, d)

\* C1: whenever a maximum amount was supplied and the amount of the selected
\* requirement exceeds it, the run has ended Failed in Selecting, with no key
\* loaded, no signer invoked and no retry request sent, whether the token of
\* the requirement is in the registry or not.
C1_CapStopsEveryExcess ==
    (paymentOption # Nil /\ ExceedsCap(paymentOption))
        => /\ outcome = "Failed"
           /\ keyLoaded = ""
           /\ signerCalls = 0
           /\ ~RetryIssued

\* C2: an initial response of status 200 ends the run in Success, with no
\* parse of payment requirements, no key loaded, no signer invoked and no
\* second request.
C2_OkNeedsNoPayment ==
    (reqResult # Nil /\ reqResult.StatusCode = StatusOK)
        => /\ outcome = "Success"
           /\ parseCalls = 0
           /\ keyLoaded = ""
           /\ signerCalls = 0
           /\ Len(sent) = 1

C2_Witness ==
    /\ reqResult # Nil
    /\ reqResult.StatusCode = StatusOK
    /\ outcome = "Success"
    /\ pc = "done"

\* C3: the latch signatureSent starts false; in every reachable state where the
\* payment header is attached or the retry request has been issued it is true;
\* and it only ever changes from false to true.
C3_LatchSetFirstAndKept ==
    /\ signatureSent = FALSE
    /\ []((PaymentAttached \/ RetryIssued) => signatureSent)
    /\ [][signatureSent => signatureSent']_vars

C3_Witness ==
    /\ signatureSent
    /\ PaymentAttached
    /\ RetryIssued

\* C4: in every interleaving of the handler with the main flow, when the
\* handler has reported "No payment was made" the run has sent no
\* signature-bearing retry request, before the report or between the report
\* and the exit.
C4_NoPaymentReportIsTrue ==
    report = "none" => ~SignatureSentOut

\* C5: an interrupt that arrives once a signer has returned a signature is
\* never reported as "No payment was made".
C5_WarnedOnceSigned ==
    sigAt = "signed" => report # "none"

\* runTest has returned (the handler has not ended the process first)
Returned == pc = "done"

\* the retry request was sent and answered with a status other than 200
RetryRefused == RetryIssued /\ retryResult # Nil /\ retryResult.StatusCode # StatusOK

\* a run ends Rejected, with exit code 5 in its result, exactly when the retry
\* request was sent and answered with a status other than 200
RejectedExactlyWhenRefused ==
    Returned => /\ (outcome = "Rejected") <=> RetryRefused
                /\ (outcome = "Rejected") <=> (result # Nil /\ result.ExitCode = 5)

Steps ==
    <<"Requesting", "Negotiating", "Selecting", "LoadingKey", "Confirming", "Signing",
      "Building", "Latching", "Attaching", "Retrying", "Verifying">>

Position(step) == CHOOSE i \in 1..Len(Steps) : Steps[i] = step

\* the run has ended Failed, with no signer invoked and no retry request sent
FailedUnsigned == outcome = "Failed" /\ signerCalls = 0 /\ Len(sent) = 1

\* C7: runTest starts in Requesting and every step is followed by the next one
\* of Requesting, Negotiating, Selecting, Signing, Retrying, Verifying (or by
\* the end of the run); the requirements are parsed only after a 402, a signer
\* is invoked only after a 402, a successful parse and a selection; a status
\* other than 200 or 402, a parse failure and a selection failure each end the
\* run Failed with no signer invoked and no retry request sent.
C7_StepsInOrder ==
    /\ pc = "Requesting"
    /\ [][pc' # pc => (pc' = "done" \/ Position(pc') = Position(pc) + 1)]_vars
    /\ [](parseCalls > 0 => reqResult.StatusCode = StatusPaymentRequired)
    /\ [](signerCalls > 0 => /\ reqResult.StatusCode = StatusPaymentRequired
                             /\ parseCalls = 1
                             /\ parseResult # Nil
                             /\ paymentOption # Nil)
    /\ []((reqResult # Nil /\ reqResult.StatusCode \notin {StatusOK, StatusPaymentRequired})
              => FailedUnsigned)
    /\ []((parseCalls > 0 /\ parseResult = Nil) => FailedUnsigned)
    /\ []((parseResult # Nil /\ pc # "Selecting" /\ paymentOption = Nil) => FailedUnsigned)

C7_Witness ==
    /\ pc = "Verifying"
    /\ outcome = "Running"
    /\ signerCalls = 1
    /\ parseCalls = 1

\* a step that leaves the outcome, the requests and the signature as they are
NothingFollows ==
    /\ outcome' = outcome
    /\ sent' = sent
    /\ signerCalls' = signerCalls
    /\ signResult' = signResult

\* C8: a run invokes a signer at most once and sends at most two requests, the
\* second only when the first has been answered and the signature made; once
\* the run is Rejected or Failed (a network failure of either request is
\* Failed) no signature and no request follow.
C8_OneAttempt ==
    /\ [](signerCalls <= 1 /\ Len(sent) <= 2)
    /\ [](RetryIssued => (reqResult # Nil /\ signerCalls = 1 /\ signResult # Nil))
    /\ [][(outcome \in {"Rejected", "Failed"}) => NothingFollows]_vars

C8_Witness ==
    /\ outcome = "Failed"
    /\ failure = "retry request failed"
    /\ signerCalls = 1
    /\ Len(sent) = 2

\* the retry request has the method, the URL and the body of the initial one
SameRequestLine ==
    /\ sent[2].method = sent[1].method
    /\ sent[2].url = sent[1].url
    /\ sent[2].body = sent[1].body

\* C9 as stated: the retry request has the method, URL and body of the initial
\* request, and its headers are those of the initial request plus exactly one
\* added payment header, every header of the caller being as it was.
C9_OneHeaderAdded ==
    RetryIssued =>
        /\ SameRequestLine
        /\ headerName \notin DOMAIN sent[1].headers
        /\ DOMAIN sent[2].headers = DOMAIN sent[1].headers \cup {headerName}
        /\ sent[2].headers[headerName] = headerValue
        /\ \A k \in DOMAIN sent[1].headers : sent[2].headers[k] = sent[1].headers[k]

\* the retry response carries a settlement header that decodes
SettlementDecodes ==
    /\ retryResult # Nil
    /\ \E n \in DOMAIN retryResult.Header : retryResult.Header[n].kind = "b64json"

\* the settlement record or the transaction link of the result is filled in
SettlementFilled ==
    /\ result # Nil
    /\ \/ result.PaymentResponse # Nil
       \/ result.Transaction # ""
       \/ result.TransactionURL # <<>>

\* C10: when the retry has been answered with 200 the run ends Success, with
\* exit code 0, whatever the settlement header is; the settlement record and
\* the transaction link are filled in only when the header decodes.
C10_SettlementBestEffort ==
    /\ (Returned /\ retryResult # Nil /\ retryResult.StatusCode = StatusOK)
          => (outcome = "Success" /\ result.ExitCode = 0)
    /\ SettlementFilled => SettlementDecodes

C10_Witness ==
    /\ outcome = "Success"
    /\ RetryIssued
    /\ ParsePaymentResponse(retryResult, parseResult.ProtocolVersion).err # ""
    /\ ~SettlementFilled

\* the chain the key, the signer, the sign parameters and the payload of the
\* run belong to, as far as each exists
KeyIsSolana == keyLoaded = "solana"
ParamsAreSolana == signParams.TokenName = ""
SignerIsSolana == signResult.Signature.kind = "b64tx"
PayloadIsSolana == "transaction" \in DOMAIN headerValue.doc.payload

PaymentHeaderOf(version) ==
    IF version = ProtocolV2 THEN HeaderPaymentSignature ELSE HeaderXPayment

SettlementHeaderOf(version) ==
    IF version = ProtocolV2 THEN HeaderPaymentResponse ELSE HeaderXPaymentResponse

\* C13: in every run, on the EVM path and on the Solana path, the header that
\* carries the payment is the one of the version detected when the 402 was
\* parsed (Payment-Signature for 2, X-Payment for 1), and a settlement record
\* is taken only from the settlement header of that version (Payment-Response
\* for 2, X-Payment-Response for 1).
C13_HeadersOfDetectedVersion ==
    /\ headerName # "" => headerName = PaymentHeaderOf(parseResult.ProtocolVersion)
    /\ (result # Nil /\ result.PaymentResponse # Nil)
          => HeaderGet(retryResult, SettlementHeaderOf(parseResult.ProtocolVersion)).kind
                = "b64json"

\* neither a signer nor a retry request
NothingSignedOrSent == signerCalls = 0 /\ signResult = Nil /\ ~RetryIssued

\* C19: a run in dry-run mode invokes no signer, sends no retry request
\* and loads no private key, and ends so; a run the user declined at the
\* prompt has invoked no signer and sent no retry request
C19_DryRunAndDeclineStopShort ==
    /\ dryRun => (NothingSignedOrSent /\ keyLoaded = "")
    /\ (outcome = "DryRun") => (NothingSignedOrSent /\ keyLoaded = "" /\ pc = "done")
    /\ (outcome = "Declined") => (NothingSignedOrSent /\ pc = "done")

\* declined at the prompt with the key loaded
C19_Witness ==
    /\ outcome = "Declined"
    /\ keyLoaded # ""
    /\ signerCalls = 0

\* the exit status of the process once the command is over: os.Exit(1) in
\* the interrupt handler (test.go:104) and in Execute when the command
\* returned an error (root.go:53-58), 0 when it returned nil
ExitStatus == IF outcome = "Interrupted" \/ failure # "" THEN 1 ELSE 0

RetryAnsweredNot200 ==
    /\ pc = "done"
    /\ retryResult # Nil
    /\ retryResult.StatusCode # StatusOK

\* C25: when the retry is answered with a status other than 200 the test
\* command ends with exit status 5, with and without --json
C25_RejectedExitsWithFive ==
    (outcome # "Interrupted" /\ RetryAnsweredNot200) => ExitStatus = 5

SignerFailed == failure = "failed to sign authorization"

\* C27: when the signer returns an error the run ends Failed: the signer was
\* invoked once and is not invoked again, no payment header is built, no
\* retry request is sent and the latch stays false
C27_SigningErrorEndsRun ==
    SignerFailed =>
        /\ outcome \in {"Failed", "Interrupted"}
        /\ pc = "done"
        /\ signerCalls = 1
        /\ signResult = Nil
        /\ headerName = "" /\ headerValue = EmptyText
        /\ ~RetryIssued
        /\ ~signatureSent

\* a run that failed in the Solana signer
C27_Witness ==
    /\ SignerFailed
    /\ outcome = "Failed"
    /\ isSolana
    /\ signParams # Nil

\* the selector has chosen an EVM requirement
EVMOptionChosen == paymentOption # Nil /\ ~isSolana

\* C38: every network that IsEVMNetwork accepts has a chain id, so an EVM
\* requirement found by FindEVMOption and chosen by the selector never makes
\* the run fail with an invalid-network error.
C38_EVMNetworkHasChainID ==
    EVMOptionChosen =>
        /\ IsEVMNetwork(paymentOption.network)
        /\ ~ExtractChainID(paymentOption.network).err
        /\ failure # "invalid network"

\* ------------------------------------------------------------------------
\* Properties of the functions
\* ------------------------------------------------------------------------

\* C11: selectPaymentOption follows the table. With a Solana key: the Solana
\* option and the tag true when there is one, else the error naming the
\* mismatch when there is an EVM option, else the generic error. Without: the
\* EVM option and the tag false when there is one, else the error advising
\* --solana-keypair when there is a Solana option, else the generic error. It
\* returns an option of the other chain in no case, and an option together
\* with an error in no case.
C11_SelectorTable ==
    fn = "selectPaymentOption" =>
        LET sol == args.solanaOpt
            evm == args.evmOpt
            generic == "no supported payment options found"
        IN  /\ (args.hasSolanaKeypair /\ sol # Nil)
                => ret = [option |-> sol, isSolana |-> TRUE, err |-> ""]
            /\ (args.hasSolanaKeypair /\ sol = Nil /\ evm # Nil)
                => /\ ret.option = Nil
                   /\ ret.err = "endpoint does not accept Solana payments, but --solana-keypair was provided"
            /\ (args.hasSolanaKeypair /\ sol = Nil /\ evm = Nil)
                => (ret.option = Nil /\ ret.err = generic)
            /\ (~args.hasSolanaKeypair /\ evm # Nil)
                => ret = [option |-> evm, isSolana |-> FALSE, err |-> ""]
            /\ (~args.hasSolanaKeypair /\ evm = Nil /\ sol # Nil)
                => /\ ret.option = Nil
                   /\ ret.err = "endpoint only accepts Solana payments (use --solana-keypair)"
            /\ (~args.hasSolanaKeypair /\ evm = Nil /\ sol = Nil)
                => (ret.option = Nil /\ ret.err = generic)
            /\ (ret.option # Nil) <=> (ret.err = "")
            /\ ret.option # Nil => ret.isSolana = args.hasSolanaKeypair
            /\ ret.option # Nil => ret.option = (IF args.hasSolanaKeypair THEN sol ELSE evm)

C11_Witness ==
    /\ fn = "selectPaymentOption"
    /\ args.hasSolanaKeypair
    /\ args.solanaOpt = Nil
    /\ args.evmOpt # Nil
    /\ ret.err # ""

\* the Payment-Required header and the body of the response handed to
\* ParsePaymentRequired, as the server wrote them
ParsedHeader == HeaderGet(args.resp, HeaderPaymentRequired)
ParsedBody == args.resp.Body
ParseSucceeded == fn = "ParsePaymentRequired" /\ ret.err = ""

\* C14: a successful ParsePaymentRequired reports protocol version 2 exactly
\* when the Payment-Required header is non-empty; the requirements are then
\* the document the header encodes, whatever the body holds, and otherwise
\* the JSON document of the body
C14_VersionFromHeaderPresence ==
    ParseSucceeded =>
        /\ (ret.result.ProtocolVersion = ProtocolV2) <=> (ParsedHeader # EmptyText)
        /\ (ret.result.ProtocolVersion = ProtocolV1) <=> (ParsedHeader = EmptyText)
        /\ (ParsedHeader # EmptyText) =>
               (ParsedHeader.kind = "b64json"
                /\ ret.result.PaymentRequired = ParsedHeader.doc)
        /\ (ParsedHeader = EmptyText) =>
               (ParsedBody.kind = "json"
                /\ ret.result.PaymentRequired = ParsedBody.doc)

\* a version 2 result parsed from the header of a response whose body is a
\* JSON document of other requirements
C14_Witness ==
    /\ ParseSucceeded
    /\ ret.result.ProtocolVersion = ProtocolV2
    /\ ParsedBody.kind = "json"
    /\ ParsedBody.doc # ParsedHeader.doc

\* strings.Contains, on the error texts of the codec
Contains(s, substr) ==
    CASE substr = "invalid base64" ->
           s \in {ErrHeaderBase64(n) :
                    n \in {HeaderPaymentRequired, HeaderPaymentResponse, HeaderXPaymentResponse}}
      [] substr = "invalid JSON" ->
           s \in {ErrBodyJSON} \cup
                 {ErrHeaderJSON(n) :
                    n \in {HeaderPaymentRequired, HeaderPaymentResponse, HeaderXPaymentResponse}}
      [] OTHER -> FALSE

ParseCalled == fn = "ParsePaymentRequired" /\ ParsedBody # Unreadable
ParseFailed == ret.result = Nil /\ ret.err # ""
HeaderIsBase64 == ParsedHeader.kind \in {"b64json", "b64garbage"}

VersionHeaderName ==
    IF args.protocolVersion = ProtocolV2 THEN HeaderPaymentResponse ELSE HeaderXPaymentResponse
OtherHeaderName ==
    IF args.protocolVersion = ProtocolV2 THEN HeaderXPaymentResponse ELSE HeaderPaymentResponse
VersionHeader == HeaderGet(args.resp, VersionHeaderName)

\* C16: ParsePaymentResponse reads only the header of the given version
\* (Payment-Response for version 2, X-Payment-Response otherwise): without
\* it the result is empty and there is no error, whatever the other header
\* holds; there is an error exactly when it is present and is not base64 or
\* not JSON; otherwise the result is the record it encodes
C16_SettlementHeaderOfVersion ==
    (fn = "ParsePaymentResponse") =>
        /\ (VersionHeader = EmptyText) => (ret.pr = Nil /\ ret.err = "")
        /\ (ret.err # "") <=> (VersionHeader # EmptyText /\ VersionHeader.kind # "b64json")
        /\ (ret.err # "") => ret.pr = Nil
        /\ (VersionHeader.kind = "b64json") => ret.pr = VersionHeader.doc
        /\ (VersionHeader.kind = "b64garbage") => ret.err = ErrHeaderJSON(VersionHeaderName)
        /\ (VersionHeader.kind = "garbage") => ret.err = ErrHeaderBase64(VersionHeaderName)

\* nothing returned and no error although the other version's header holds
\* a settlement record
C16_Witness ==
    /\ fn = "ParsePaymentResponse"
    /\ VersionHeader = EmptyText
    /\ HeaderGet(args.resp, OtherHeaderName).kind = "b64json"
    /\ ret.pr = Nil
    /\ ret.err = ""

\* the payload a payment header carries, as the server decodes it
DecodedPayload(text) == JSONUnmarshal(B64Decode(text).text).doc

RoundTripV2 ==
    /\ fn = "BuildAndEncodePayload"
    /\ args.protocolVersion = ProtocolV2
    /\ args.parsed.ProtocolVersion = ProtocolV2

\* C17: a requirement parsed from a valid version 2 response and encoded
\* with BuildAndEncodePayload for version 2 decodes (base64, then JSON) to a
\* payload whose accepted option has the requirement's scheme, network,
\* asset and payTo, and its amount: the amount field when that is set, the
\* maxAmountRequired field otherwise
C17_RoundTripKeepsOption ==
    RoundTripV2 =>
        /\ ret.headerName = HeaderPaymentSignature
        /\ B64Decode(ret.headerValue).ok
        /\ JSONUnmarshal(B64Decode(ret.headerValue).text).ok
        /\ LET accepted == DecodedPayload(ret.headerValue).accepted
               option == args.option
           IN  /\ accepted.scheme = option.scheme
               /\ accepted.network = option.network
               /\ accepted.asset = option.asset
               /\ accepted.payTo = option.payTo
               /\ (option.amount # <<>>) => accepted.amount = option.amount
               /\ (option.amount = <<>>) => accepted.amount = option.maxAmountRequired

\* a round trip of a requirement that has both amount fields set, to
\* different values
C17_Witness ==
    /\ RoundTripV2
    /\ args.option.amount # <<>>
    /\ args.option.maxAmountRequired # <<>>
    /\ args.option.amount # args.option.maxAmountRequired
    /\ DecodedPayload(ret.headerValue).accepted.amount = args.option.amount

\* C18: GetAmount returns maxAmountRequired when only that field is set,
\* amount when only amount is set, amount when both are set, and the empty
\* string when neither is
C18_GetAmountTable ==
    (fn = "GetAmount") =>
        /\ (args.p.amount = <<>> /\ args.p.maxAmountRequired # <<>>)
              => ret.amount = args.p.maxAmountRequired
        /\ (args.p.amount # <<>> /\ args.p.maxAmountRequired = <<>>)
              => ret.amount = args.p.amount
        /\ (args.p.amount # <<>> /\ args.p.maxAmountRequired # <<>>)
              => ret.amount = args.p.amount
        /\ (args.p.amount = <<>> /\ args.p.maxAmountRequired = <<>>)
              => ret.amount = <<>>

\* both fields set to different amounts, and the amount field returned
C18_Witness ==
    /\ fn = "GetAmount"
    /\ args.p.amount # <<>>
    /\ args.p.maxAmountRequired # <<>>
    /\ args.p.amount # args.p.maxAmountRequired
    /\ ret.amount = args.p.amount

\* the transaction SolanaSigner.Sign returned, and the kinds of its
\* instructions in their order
SolanaSigned == fn = "SolanaSigner.Sign" /\ ret.err = ""
BuiltInstructions == TransactionFromBase64(ret.res.Signature).instructions
InstructionKinds ==
    [i \in 1..Len(BuiltInstructions) |->
        <<BuiltInstructions[i].program, BuiltInstructions[i].type>>]
BudgetThenTransfer ==
    << <<"ComputeBudget", "SetComputeUnitLimit">>,
       <<"ComputeBudget", "SetComputeUnitPrice">>,
       <<"Token", "TransferChecked">> >>
PayeeAccountFound == args.ledger.destATA = "exists"

BuiltTransaction == TransactionFromBase64(ret.res.Signature)
TokenOwner == args.privateKey
FeePayer == args.params.FeePayer
CreatesPaidByFeePayer ==
    \A i \in 1..Len(BuiltInstructions) :
        (BuiltInstructions[i].type = "Create") => BuiltInstructions[i].accounts[1] = FeePayer
TransfersByOwner ==
    \A i \in 1..Len(BuiltInstructions) :
        (BuiltInstructions[i].type = "TransferChecked")
            => BuiltInstructions[i].accounts[4] = TokenOwner

\* C21: in every transaction SolanaSigner.Sign builds the fee payer is the
\* transaction payer and the funder of the account creation, the token owner
\* is the authority of the transfer, only the token owner's key has signed,
\* and the signature slot of the fee payer is empty
C21_FeePayerSlotLeftEmpty ==
    SolanaSigned =>
        /\ BuiltTransaction.feePayer = FeePayer
        /\ CreatesPaidByFeePayer
        /\ TransfersByOwner
        /\ \A key \in DOMAIN BuiltTransaction.signatures :
              (BuiltTransaction.signatures[key] = "signature") <=> (key = TokenOwner)
        /\ BuiltTransaction.signatures[FeePayer] = "empty"

\* the input of SolanaSigner.Sign as the claim sorts it
SolanaCalled == fn = "SolanaSigner.Sign"
MalformedAddress ==
    \/ args.params.To = "0xpayee"
    \/ args.params.TokenAddress = AssetUnknown
    \/ args.params.FeePayer = ""
NotUint64 == args.params.Value \in {<<>>, AmountOverflow, AmountNegative}
SolanaRefused == ret.res = Nil /\ ret.err # ""
LedgerReadsInOrder ==
    <<"GetAccountInfo(mint)", "GetAccountInfo(destATA)", "GetLatestBlockhash">>

\* C22: SolanaSigner.Sign returns an error and no result on a malformed
\* recipient, mint or fee payer address, on an amount that is no uint64, when
\* the mint cannot be read, when no blockhash is served and when the
\* transaction does not serialize; a malformed address or amount is refused
\* before any ledger read; the reads issued are an initial part of: mint
\* decimals, payee account, blockhash, each once
C22_SolanaSignFailures ==
    SolanaCalled =>
        /\ MalformedAddress => (SolanaRefused /\ ret.reads = << >>)
        /\ NotUint64 => (SolanaRefused /\ ret.reads = << >>)
        /\ ~args.ledger.mint => SolanaRefused
        /\ ~args.ledger.blockhash => SolanaRefused
        /\ ~args.ledger.serializes => SolanaRefused
        /\ (ret.res = Nil) <=> (ret.err # "")
        /\ ret.reads = SubSeq(LedgerReadsInOrder, 1, Len(ret.reads))
        /\ (ret.err = "") => ret.reads = LedgerReadsInOrder

\* refused for want of a blockhash, after the three reads
C22_Witness ==
    /\ SolanaCalled
    /\ ret.err = "failed to get recent blockhash"
    /\ ret.res = Nil
    /\ ret.reads = LedgerReadsInOrder

\* the authorization EVMSigner.Sign returned and the message it signed
EVMSigned == fn = "EVMSigner.Sign" /\ ret.err = ""
SignedMessage == ret.res.Signature.doc.signed.Message
ReturnedAuthorization == ret.res.Authorization

\* C23: validBefore is the explicit ValidBefore when that is not zero,
\* otherwise the clock plus TimeoutSeconds, plus 300 when TimeoutSeconds is
\* zero; validAfter is the caller's ValidAfter; the returned authorization
\* carries the validBefore and validAfter of the signed message
C23_ValidityWindow ==
    EVMSigned =>
        /\ (args.params.ValidBefore # 0)
              => ReturnedAuthorization.validBefore = NatToString(args.params.ValidBefore)
        /\ (args.params.ValidBefore = 0 /\ args.params.TimeoutSeconds # 0)
              => ReturnedAuthorization.validBefore =
                    NatToString(args.world.now + args.params.TimeoutSeconds)
        /\ (args.params.ValidBefore = 0 /\ args.params.TimeoutSeconds = 0)
              => ReturnedAuthorization.validBefore = NatToString(args.world.now + 300)
        /\ ReturnedAuthorization.validAfter = NatToString(args.params.ValidAfter)
        /\ SignedMessage.validBefore = ReturnedAuthorization.validBefore
        /\ SignedMessage.validAfter = ReturnedAuthorization.validAfter

\* an explicit ValidBefore returned although a timeout was given as well
C23_Witness ==
    /\ EVMSigned
    /\ args.params.ValidBefore # 0
    /\ args.params.TimeoutSeconds = 60
    /\ args.params.ValidAfter = 100
    /\ ReturnedAuthorization.validBefore = NatToString(args.params.ValidBefore)

\* the amounts among EVMValues that are no base-10 integers: "", "abc", "0.05"
NotAnInteger == args.params.Value \in {<<>>, HumanABC, Human005}

AuthorizedTypedData(params, auth) ==
    [PrimaryType |-> "TransferWithAuthorization",
     Domain |-> [Name |-> params.TokenName, Version |-> params.TokenVersion,
                 ChainId |-> params.ChainID, VerifyingContract |-> params.TokenAddress],
     Message |-> [from |-> auth.from, to |-> auth.to,
                  value |-> FormatInt(SetString(auth.value).val),
                  validAfter |-> auth.validAfter, validBefore |-> auth.validBefore,
                  nonce |-> auth.nonce]]

SignedTwice == fn = "EVMSigner.Sign twice" /\ ret.first.err = "" /\ ret.second.err = ""
VerifiesFor(signed, address) ==
    Recover(signed.res.Signature.doc,
            AuthorizedTypedData(args.params, signed.res.Authorization)) = address

OptionChosen == fn = "FindOption" /\ ret.err = ""

C28_OnlyExactIsSelected == OptionChosen => ret.option.scheme = "exact"

\* the read of the payee's associated token account failed
PayeeAccountReadFailed ==
    /\ SolanaCalled
    /\ args.ledger.destATA = "rpc-error"
    /\ "GetAccountInfo(destATA)" \in {ret.reads[k] : k \in DOMAIN ret.reads}

\* C39: when the ledger read that checks the payee's associated token account
\* fails, SolanaSigner.Sign returns no error for it: it takes the account as
\* not existing and builds the transaction with the account-creation
\* instruction in front.
C39_FailedAccountReadMeansCreate ==
    PayeeAccountReadFailed =>
        /\ ret.err # "failed to check destination ATA"
        /\ ret.err = "" => InstructionKinds[1] = <<"AssociatedTokenAccount", "Create">>
        /\ (args.ledger.blockhash /\ args.ledger.serializes /\ ret.err # "failed to sign transaction")
              => ret.err = ""

\* a transaction was built after the read of the payee's account had failed
C39_Witness ==
    /\ PayeeAccountReadFailed
    /\ ret.err = ""
    /\ Len(BuiltInstructions) = 4

\* Discover has been called and has returned
Discovered == fn = "Discover"

\* the paths of the recorded attempts, in order
TriedPathNames == [k \in 1..Len(ret.TriedPaths) |-> ret.TriedPaths[k].Path]

IsPrefix(a, b) == Len(a) <= Len(b) /\ \A k \in 1..Len(a) : a[k] = b[k]

\* the paths to try: the custom path alone when one is given, else the three
\* well-known paths in their order
PathsInPriorityOrder ==
    IF args.customPath = ""
    THEN <<"/.well-known/agent.json", "/.well-known/agent-card.json", "/.well-known/agents.json">>
    ELSE <<"/custom/agent.json">>

\* C36: Discover tries the paths in their fixed order and stops at the first
\* that yields a valid card: the attempts are a prefix of the path list, the
\* discovery path of a found card is the last path attempted, and a custom
\* path is the only path tried.
C36_PathsTriedInOrder ==
    Discovered =>
        /\ IsPrefix(TriedPathNames, PathsInPriorityOrder)
        /\ \A k \in 1..Len(ret.TriedPaths) :
              args.answers[k] = "card" => ret.Found /\ k = Len(ret.TriedPaths)
        /\ ret.Found =>
              /\ ret.TriedPaths # <<>>
              /\ ret.DiscoveryPath = ret.TriedPaths[Len(ret.TriedPaths)].Path
              /\ args.answers[Len(ret.TriedPaths)] = "card"
        /\ (args.customPath # "" /\ args.rawURL # "") => TriedPathNames = <<"/custom/agent.json">>

\* the card is found at the third well-known path after two misses
C36_Witness ==
    /\ Discovered
    /\ ret.Found
    /\ ret.DiscoveryPath = "/.well-known/agents.json"
    /\ Len(ret.TriedPaths) = 3

\* the answers that are 200 with a card that cannot be used
InvalidCards == {"invalid JSON", "no name", "no version"}

\* every path was asked and none has a card: only 404, 401 and 403 came back
NoCardAnywhere ==
    /\ args.rawURL # ""
    /\ \A k \in DOMAIN args.answers : args.answers[k] \in {"404", "401", "403"}

\* attempts were made and each one was a network error
OnlyNetworkErrors ==
    /\ ret.TriedPaths # <<>>
    /\ \A k \in 1..Len(ret.TriedPaths) : args.answers[k] = "network error"

\* C37: the exit code of Discover is 0 when a card is found or no path has a
\* card (404, 401, 403 only), 4 as soon as a path answers 200 with an invalid
\* card, later paths not being tried, and 3 when every attempt was a network
\* error (after the first attempt with a custom path); Found implies a card
\* and exit code 0.
C37_DiscoverExitCodes ==
    Discovered =>
        /\ ret.Found => ret.Card # Nil /\ ret.ExitCode = 0
        /\ NoCardAnywhere =>
              ret.ExitCode = 0 /\ ~ret.Found /\ Len(ret.TriedPaths) = Len(args.answers)
        /\ \A k \in 1..Len(ret.TriedPaths) :
              args.answers[k] \in InvalidCards => ret.ExitCode = 4 /\ k = Len(ret.TriedPaths)
        /\ OnlyNetworkErrors =>
              /\ ret.ExitCode = 3
              /\ args.customPath # "" => Len(ret.TriedPaths) = 1

\* the second well-known path answers 200 with a card without a name: exit
\* code 4, the third path not tried
C37_Witness ==
    /\ Discovered
    /\ args.customPath = ""
    /\ args.answers[2] = "no name"
    /\ ret.ExitCode = 4
    /\ Len(ret.TriedPaths) = 2

\* ------------------------------------------------------------------------
\* Properties of runBatchChecks
\* ------------------------------------------------------------------------

\* the entries whose health check is running
InFlight == {idx \in DOMAIN workers : workers[idx].pc = "check"}

\* C29: with parallel = n > 1, at most n health checks are in flight at any
\* moment, in every interleaving of the dispatcher and the workers.
C29_AtMostParallelInFlight ==
    (fn = "runBatchChecks" /\ args.parallel > 1) => Cardinality(InFlight) <= args.parallel

\* n checks are in flight, and the dispatcher waits for a token with more
\* entries to go
C29_Witness ==
    /\ fn = "runBatchChecks"
    /\ args.parallel > 1
    /\ Cardinality(InFlight) = args.parallel
    /\ bpc = "acquire"

\* runBatchChecks has returned
BatchReturned == fn = "runBatchChecks" /\ bpc = "returned"

\* slot k of what was returned holds the one result of the one check of entry k
SlotHoldsItsCheck(k) ==
    /\ writes[k] = 1
    /\ checks[k] = <<ret[k]>>
    /\ ret[k] \in CheckHealthForBatchWithMethod(Entries[k])

\* C30: without fail-fast, runBatchChecks returns exactly one result per entry,
\* in entry order (result k is the outcome of the check of entry k), and each
\* slot is written exactly once, in sequential and in parallel execution.
C30_OneResultPerEntryInOrder ==
    (fn = "runBatchChecks" /\ ~args.failFast) =>
        /\ \A k \in DOMAIN writes : writes[k] <= 1 /\ Len(checks[k]) <= 1
        /\ bpc = "returned" =>
              /\ Len(ret) = Len(Entries)
              /\ \A k \in 1..Len(Entries) : SlotHoldsItsCheck(k)

\* a parallel batch of three or more entries has returned, with a healthy
\* endpoint and a failed one among them
C30_Witness ==
    /\ BatchReturned
    /\ ~args.failFast
    /\ args.parallel > 1
    /\ Len(Entries) > args.parallel
    /\ \E j, k \in 1..Len(ret) : j < k /\ ret[j].ExitCode # 0 /\ ret[k].ExitCode = 0

\* a failing result has been stored in the results slice
FailureRecorded == \E k \in DOMAIN writes : writes[k] > 0 /\ results[k].ExitCode # 0

\* the entries whose health check has been started
Started == {k \in DOMAIN workers : workers[k].pc # "unborn" \/ checks[k] # <<>>}

\* C31: with fail-fast, once a failing result has been recorded no further
\* health check is started, in sequential mode and in every interleaving of
\* parallel mode.
C31_NoCheckStartsAfterFailure ==
    [][(fn = "runBatchChecks" /\ args.failFast /\ FailureRecorded) => Started' = Started]_vars

\* the workers that were started and have not yet stored their result
Unstored == {k \in DOMAIN workers : workers[k].pc \in {"check", "lock"}}

\* C32: runBatchChecks returns only after every health check it started has
\* finished and stored its result, the fail-fast early return included: no
\* worker writes to the results slice after the return.
C32_ReturnsAfterEveryWorkerStored == BatchReturned => Unstored = {}

\* the entries whose failing result has been stored
StoredFailures == {k \in DOMAIN writes : writes[k] > 0 /\ results[k].ExitCode # 0}

\* C33: in parallel fail-fast mode the stop channel is closed at most once, in
\* every interleaving and however many checks fail: a second close would panic.
C33_StopChanClosedAtMostOnce ==
    (fn = "runBatchChecks" /\ args.parallel > 1 /\ args.failFast) =>
        /\ stopChan \in {"open", "closed"}
        /\ stopChan = "closed" <=> stopped

\* two checks have failed and stored their results
C33_Witness ==
    /\ fn = "runBatchChecks"
    /\ args.parallel > 1
    /\ args.failFast
    /\ Cardinality(StoredFailures) > 1
    /\ stopChan = "closed"

\* the entries whose health check has returned, and those among them that
\* returned exit code 0
Checked == {k \in DOMAIN checks : checks[k] # <<>>}

CheckedHealthy == {k \in Checked : checks[k][1].ExitCode = 0}

\* C34: in the summary of runBatchHealth every endpoint counted as passed or
\* passed with warnings was checked and returned exit code 0, and the three
\* counts add up to the number of endpoints checked, a fail-fast stop included.
C34_SummaryCountsCheckedEndpoints ==
    (fn = "runBatchChecks" /\ summary.printed) =>
        /\ summary.passed + summary.passedWarn <= Cardinality(CheckedHealthy)
        /\ summary.passed + summary.passedWarn + summary.failed = Cardinality(Checked)

\* C35: if every health check finishes, runBatchChecks returns, for every entry
\* list, every parallelism and both fail-fast settings: the dispatcher does
\* not wait forever for a token, nor a worker for the mutex.
C35_BatchReturns == (fn = "runBatchChecks") ~> (bpc = "returned")

\* a parallel batch with more entries than tokens has returned and all its
\* goroutines have ended
C35_Witness ==
    /\ BatchReturned
    /\ args.parallel > 1
    /\ Len(Entries) > args.parallel
    /\ \A k \in DOMAIN workers : workers[k].pc = "done"

====
